---- MODULE Spec2Model ----
(***************************************************************************)
(* Session lifecycle of the terminal server (server.js): the session       *)
(* registry `sessions`, the capacity counter `containerCount`, the Docker  *)
(* runtime the handlers talk to, and the request handlers, each cut into   *)
(* steps at its await points (Node runs one such step at a time, so every  *)
(* state of the model is a state another request can observe).             *)
(***************************************************************************)
EXTENDS Integers, FiniteSets, Sequences, Bags, TLC

\* ---- configuration (scaled) and model bounds --------------------------
MAX_CONTAINERS == 1     \* process.env.MAX_CONTAINERS
SESSION_TIMEOUT == 0    \* process.env.SESSION_TIMEOUT, in clock ticks
MaxInflight == 2        \* async functions suspended at an await at one time
MaxSid == MAX_CONTAINERS + 1     \* session ids generated: enough to overfill
MaxTime == SESSION_TIMEOUT + 1   \* the clock runs until a session can expire

Creators == {"alice"}            \* web users that open sessions
WebUsers == {"alice", "admin"}   \* authenticated web principals
ApiUserIds == {"anon"}           \* req.body.userId || uuidv4()
SidRange == 1..MaxSid
Outcomes == {"ok", "enoent", "error", "fail"}

VARIABLES
  dockerIface,     \* "real": the dockerode client, "mock": the stub object
  sessions,        \* the registry: session id -> session record
  order,           \* key order of the registry object (insertion order)
  containerCount,  \* the capacity counter
  containers,      \* the Docker runtime: container id -> state
  inflight,        \* bag of async functions suspended at an await
  nextSid,         \* the next fresh uuid
  now,             \* Date.now()
  ev,              \* the response written by the last step, if any
  decs,            \* history: decrements of containerCount per session id
  envImage,        \* process.env.USER_CONTAINER_IMAGE
  images,          \* container id -> the Image its createContainer call named
  lastBuild,       \* app.locals.lastBuild: <<>> while undefined, else <<record>>
  webSessions,     \* login token -> web session record
  nextToken        \* the next fresh login token (uuid)

vars == <<dockerIface, sessions, order, containerCount, containers, inflight,
          nextSid, now, ev, decs, envImage, images, lastBuild, webSessions,
          nextToken>>

\* ---- helpers -----------------------------------------------------------
\* a response: the handler that wrote it, the session, the HTTP status, the
\* isMock flag of the body, and the Docker answer that led to it ("-": the
\* request was answered before any Docker call)
Ev(act, sid, status, mock, out) ==
  [act |-> act, sid |-> sid, status |-> status, mock |-> mock, out |-> out]

\* a step that answers no request
Quiet == Ev("-", 0, 0, FALSE, "-")

Respond(act, sid, status, mock, out) == ev' = Ev(act, sid, status, mock, out)
NoResponse == ev' = Quiet

Task(op, pc, sid, cid, who) ==
  [op |-> op, pc |-> pc, sid |-> sid, cid |-> cid, who |-> who]

Tasks == BagToSet(inflight)
Spawn(b, t) == b (+) SetToBag({t})
Retire(b, t) == b (-) SetToBag({t})
Room(n) == BagCardinality(inflight) + n <= MaxInflight

Known(sid) == sid \in DOMAIN sessions
Without(f, k) == [x \in (DOMAIN f) \ {k} |-> f[x]]
With(f, k, v) == [x \in (DOMAIN f) \cup {k} |-> IF x = k THEN v ELSE f[x]]
SeqWithout(s, k) == SelectSeq(s, LAMBDA x : x # k)

\* the synthetic id `mock-container-<uuid>` of the fallback, unknown to Docker
MockCid(sid) == 0 - sid
IsMockCid(cid) == cid < 0

IsAdmin(who) == who = "admin"

\* ---- pure pieces of the handlers ----------------------------------------
\* containerCount >= MAX_CONTAINERS
AtCapacity(count) == count >= MAX_CONTAINERS

ExpiredAtLimit(s) == now - s.lastAccessed >= SESSION_TIMEOUT
\* Date.now() - session.lastAccessed > SESSION_TIMEOUT
Expired(s) == now - s.lastAccessed > SESSION_TIMEOUT

\* 24 * 60 * 60 * 1000, in clock ticks
WEB_TTL == 1

WebExpiredSliding(w) == now - w.lastAccessed > WEB_TTL
\* Date.now() - session.created > 24 * 60 * 60 * 1000
WebExpired(w) == now - w.created > WEB_TTL

\* Object.keys(webSessions).forEach: delete the expired ones
WebSwept == [k \in {x \in DOMAIN webSessions : ~WebExpired(webSessions[x])} |-> webSessions[k]]

ForbiddenNever(s, who) == FALSE
\* session.webUser !== req.webSession.username && !req.webSession.isAdmin
Forbidden(s, who) == s.webUser # who /\ ~IsAdmin(who)

CleanupRethrow(out) == "thrown"
\* the catch of cleanupSession logs the error; nothing reaches the caller
CleanupCatch(out) == "returned"

RealSessionBackdated(userId, webUser, cid) ==
  [userId |-> userId, webUser |-> webUser, containerId |-> cid,
   created |-> now, lastAccessed |-> now - 1, isMock |-> FALSE,
   commandCount |-> 0, logs |-> <<>>]
RealSession(userId, webUser, cid) ==
  [userId |-> userId, webUser |-> webUser, containerId |-> cid,
   created |-> now, lastAccessed |-> now, isMock |-> FALSE,
   commandCount |-> 0, logs |-> <<>>]

MockSessionUnflagged(userId, webUser, sid) ==
  [userId |-> userId, webUser |-> webUser, containerId |-> MockCid(sid),
   created |-> now, lastAccessed |-> now, isMock |-> FALSE,
   commandCount |-> 0, logs |-> <<>>]
MockSession(userId, webUser, sid) ==
  [userId |-> userId, webUser |-> webUser, containerId |-> MockCid(sid),
   created |-> now, lastAccessed |-> now, isMock |-> TRUE,
   commandCount |-> 0, logs |-> <<>>]

\* ---- the Docker client: what each call can answer -----------------------
\* "enoent": connect ENOENT /var/run/docker.sock; "error": any other failure.
\* The stub object answers every call with success and keeps no state.
CreateOutcomes == IF dockerIface = "mock" THEN {"ok"} ELSE {"ok", "enoent", "error"}
StartOutcomes == IF dockerIface = "mock" THEN {"ok"} ELSE {"ok", "enoent", "error"}

RuntimeState(cid) == IF cid \in DOMAIN containers THEN containers[cid] ELSE "absent"

\* the daemon stops a running container; any other container, an unknown id
\* or an unreachable socket is an error
StopOutcomes(cid) ==
  IF dockerIface = "mock" THEN {"ok"}
  ELSE IF RuntimeState(cid) = "running" THEN {"ok", "fail"} ELSE {"fail"}

\* the daemon removes a stopped container once
RemoveOutcomes(cid) ==
  IF dockerIface = "mock" THEN {"ok"}
  ELSE IF RuntimeState(cid) = "stopped" THEN {"ok", "fail"} ELSE {"fail"}

\* the runtime after a call that succeeded
Runtime(cid, state) ==
  IF dockerIface = "mock" THEN containers ELSE With(containers, cid, state)

\* const USER_CONTAINER_IMAGE = process.env.USER_CONTAINER_IMAGE || '...': the
\* value server.js took when it was loaded
USER_CONTAINER_IMAGE == "terminal-user-image:latest"

\* docker.createContainer({Image: USER_CONTAINER_IMAGE, ...}) for container cid
CreateCall(cid) == images' = With(images, cid, USER_CONTAINER_IMAGE)

\* ---- initial state -------------------------------------------------------
Init ==
  /\ dockerIface \in {"real", "mock"}
  /\ sessions = <<>>
  /\ order = <<>>
  /\ containerCount = 0
  /\ containers = <<>>
  /\ inflight = EmptyBag
  /\ nextSid = 1
  /\ now = 0
  /\ ev = Quiet
  /\ decs = [s \in SidRange |-> 0]
  /\ envImage = USER_CONTAINER_IMAGE
  /\ images = <<>>
  /\ lastBuild = <<>>
  /\ webSessions = <<>>
  /\ nextToken = 1

\* containerCount++; sessions[sessionId] = {...}
Register(sid, rec) ==
  /\ sessions' = With(sessions, sid, rec)
  /\ order' = Append(order, sid)
  /\ containerCount' = containerCount + 1

\* ---- POST /api/create-session --------------------------------------------
\* the capacity check and the ids, up to the call of docker.createContainer
CreateWebStart(who) ==
  IF AtCapacity(containerCount)
  THEN /\ Respond("createWeb", 0, 503, FALSE, "-")
       /\ UNCHANGED <<lastBuild, webSessions, nextToken, dockerIface, envImage, images, sessions, order, containerCount, containers,
                      inflight, nextSid, now, decs>>
  ELSE /\ nextSid <= MaxSid
       /\ Room(1)
       /\ inflight' = Spawn(inflight, Task("createWeb", "createContainer", nextSid, nextSid, who))
       /\ CreateCall(nextSid)
       /\ nextSid' = nextSid + 1
       /\ NoResponse
       /\ UNCHANGED <<lastBuild, webSessions, nextToken, dockerIface, envImage, sessions, order, containerCount, containers,
                      now, decs>>

CreateWebCatchLeaky(t, out) ==
  /\ Register(t.sid, MockSession(t.who, t.who, t.sid))
  /\ Respond("createWeb", t.sid, IF out = "enoent" THEN 200 ELSE 500, out = "enoent", out)
\* catch (dockerError): the mock session on a socket error; any other error is
\* rethrown to the outer catch, which answers 500
CreateWebCatch(t, out) ==
  IF out = "enoent"
  THEN /\ Register(t.sid, MockSession(t.who, t.who, t.sid))
       /\ Respond("createWeb", t.sid, 200, TRUE, out)
  ELSE /\ Respond("createWeb", t.sid, 500, FALSE, out)
       /\ UNCHANGED <<sessions, order, containerCount>>

\* await docker.createContainer(...) settles
CreateWebContainerDone(t, out) ==
  /\ t \in Tasks /\ t.op = "createWeb" /\ t.pc = "createContainer"
  /\ out \in CreateOutcomes
  /\ IF out = "ok"
     THEN /\ containers' = Runtime(t.cid, "created")
          /\ inflight' = Spawn(Retire(inflight, t), [t EXCEPT !.pc = "start"])
          /\ NoResponse
          /\ UNCHANGED <<sessions, order, containerCount>>
     ELSE /\ CreateWebCatch(t, out)
          /\ inflight' = Retire(inflight, t)
          /\ UNCHANGED containers
  /\ UNCHANGED <<lastBuild, webSessions, nextToken, dockerIface, envImage, images, nextSid, now, decs>>

\* await container.start() settles; containerCount++ and the registry insert
CreateWebStartDone(t, out) ==
  /\ t \in Tasks /\ t.op = "createWeb" /\ t.pc = "start"
  /\ out \in StartOutcomes
  /\ IF out = "ok"
     THEN /\ containers' = Runtime(t.cid, "running")
          /\ Register(t.sid, RealSession(t.who, t.who, t.cid))
          /\ Respond("createWeb", t.sid, 200, FALSE, out)
     ELSE /\ CreateWebCatch(t, out)
          /\ UNCHANGED containers
  /\ inflight' = Retire(inflight, t)
  /\ UNCHANGED <<lastBuild, webSessions, nextToken, dockerIface, envImage, images, nextSid, now, decs>>

\* ---- POST /create-session (original API) ---------------------------------
CreateApiStart(userId) ==
  IF AtCapacity(containerCount)
  THEN /\ Respond("createApi", 0, 503, FALSE, "-")
       /\ UNCHANGED <<lastBuild, webSessions, nextToken, dockerIface, envImage, images, sessions, order, containerCount, containers,
                      inflight, nextSid, now, decs>>
  ELSE /\ nextSid <= MaxSid
       /\ Room(1)
       /\ inflight' = Spawn(inflight, Task("createApi", "createContainer", nextSid, nextSid, userId))
       /\ CreateCall(nextSid)
       /\ nextSid' = nextSid + 1
       /\ NoResponse
       /\ UNCHANGED <<lastBuild, webSessions, nextToken, dockerIface, envImage, sessions, order, containerCount, containers,
                      now, decs>>

CreateApiContainerDone(t, out) ==
  /\ t \in Tasks /\ t.op = "createApi" /\ t.pc = "createContainer"
  /\ out \in CreateOutcomes
  /\ IF out = "ok"
     THEN /\ containers' = Runtime(t.cid, "created")
          /\ inflight' = Spawn(Retire(inflight, t), [t EXCEPT !.pc = "start"])
          /\ NoResponse
     ELSE /\ inflight' = Retire(inflight, t)
          /\ Respond("createApi", t.sid, 500, FALSE, out)
          /\ UNCHANGED containers
  /\ UNCHANGED <<lastBuild, webSessions, nextToken, dockerIface, envImage, images, sessions, order, containerCount, nextSid, now, decs>>

CreateApiStartDone(t, out) ==
  /\ t \in Tasks /\ t.op = "createApi" /\ t.pc = "start"
  /\ out \in StartOutcomes
  /\ IF out = "ok"
     THEN /\ containers' = Runtime(t.cid, "running")
          /\ Register(t.sid, RealSession(t.who, "none", t.cid))
          /\ Respond("createApi", t.sid, 200, FALSE, out)
     ELSE /\ Respond("createApi", t.sid, 500, FALSE, out)
          /\ UNCHANGED <<sessions, order, containerCount, containers>>
  /\ inflight' = Retire(inflight, t)
  /\ UNCHANGED <<lastBuild, webSessions, nextToken, dockerIface, envImage, images, nextSid, now, decs>>

\* ---- cleanupSession -------------------------------------------------------
\* cleanupSession is entered with the session present: its first step reads the
\* session, takes the container and calls stop; `who` is the requester the
\* caller acts for ("-": the original API and the timers know none)
CleanupTask(op, sid, who) == Task(op, "stop", sid, sessions[sid].containerId, who)

\* cleanupSession has settled: a handler that awaited it answers (its try/catch
\* around the await), a detached call has nobody to answer
Settle(t, result, out) ==
  IF t.op \in {"delWeb", "delApi"}
  THEN Respond(t.op, t.sid, IF result = "thrown" THEN 500 ELSE 200, FALSE, out)
  ELSE NoResponse

CleanupOps == {"delWeb", "delApi", "expiry", "reaper"}

\* await container.stop() settles
CleanupStopDone(t, out) ==
  /\ t \in Tasks /\ t.op \in CleanupOps /\ t.pc = "stop"
  /\ out \in StopOutcomes(t.cid)
  /\ IF out = "ok"
     THEN /\ containers' = Runtime(t.cid, "stopped")
          /\ inflight' = Spawn(Retire(inflight, t), [t EXCEPT !.pc = "remove"])
          /\ NoResponse
     ELSE /\ inflight' = Retire(inflight, t)
          /\ Settle(t, CleanupCatch(out), out)
          /\ UNCHANGED containers
  /\ UNCHANGED <<lastBuild, webSessions, nextToken, dockerIface, envImage, images, sessions, order, containerCount, nextSid, now, decs>>

\* await container.remove() settles; containerCount-- and delete sessions[id]
CleanupRemoveDone(t, out) ==
  /\ t \in Tasks /\ t.op \in CleanupOps /\ t.pc = "remove"
  /\ out \in RemoveOutcomes(t.cid)
  /\ IF out = "ok"
     THEN /\ containers' = Runtime(t.cid, "removed")
          /\ containerCount' = containerCount - 1
          /\ decs' = [decs EXCEPT ![t.sid] = @ + 1]
          /\ sessions' = Without(sessions, t.sid)
          /\ order' = SeqWithout(order, t.sid)
          /\ Settle(t, "returned", out)
     ELSE /\ Settle(t, CleanupCatch(out), out)
          /\ UNCHANGED <<containers, containerCount, decs, sessions, order>>
  /\ inflight' = Retire(inflight, t)
  /\ UNCHANGED <<lastBuild, webSessions, nextToken, dockerIface, envImage, images, nextSid, now>>

\* ---- DELETE /api/session/:id ----------------------------------------------
WebNotFoundOk(sid) == Respond("delWeb", sid, 200, FALSE, "-")
\* if (!session) return res.status(404)
WebNotFound(sid) == Respond("delWeb", sid, 404, FALSE, "-")

TerminateWeb(who, sid) ==
  /\ IF ~Known(sid)
     THEN /\ WebNotFound(sid)
          /\ UNCHANGED inflight
     ELSE IF Forbidden(sessions[sid], who)
     THEN /\ Respond("delWeb", sid, 403, FALSE, "-")
          /\ UNCHANGED inflight
     ELSE /\ Room(1)
          /\ inflight' = Spawn(inflight, CleanupTask("delWeb", sid, who))
          /\ NoResponse
  /\ UNCHANGED <<lastBuild, webSessions, nextToken, dockerIface, envImage, images, sessions, order, containerCount, containers,
                 nextSid, now, decs>>

\* ---- DELETE /session (validateSession, then the handler) ------------------
TerminateApi(sid) ==
  /\ IF ~Known(sid)
     THEN /\ Respond("delApi", sid, 401, FALSE, "-")
          /\ UNCHANGED <<inflight, sessions>>
     ELSE IF Expired(sessions[sid])
     THEN /\ Room(1)
          /\ inflight' = Spawn(inflight, CleanupTask("expiry", sid, "-"))
          /\ Respond("delApi", sid, 401, FALSE, "expired")
          /\ UNCHANGED sessions
     ELSE /\ Room(1)
          /\ sessions' = [sessions EXCEPT ![sid].lastAccessed = now]
          /\ inflight' = Spawn(inflight, CleanupTask("delApi", sid, "-"))
          /\ NoResponse
  /\ UNCHANGED <<lastBuild, webSessions, nextToken, dockerIface, envImage, images, order, containerCount, containers, nextSid, now, decs>>

\* ---- the periodic sweep (setInterval) -------------------------------------
ExpiredIds == {s \in DOMAIN sessions : Expired(sessions[s])}

RECURSIVE SpawnAll(_, _)
SpawnAll(b, sids) ==
  IF sids = {} THEN b
  ELSE LET s == CHOOSE x \in sids : TRUE
       IN SpawnAll(Spawn(b, CleanupTask("reaper", s, "-")), sids \ {s})

SweepFirstOnly ==
  /\ Room(1)
  /\ inflight' = SpawnAll(inflight, IF ExpiredIds = {} THEN {}
                                     ELSE {CHOOSE x \in ExpiredIds : TRUE})
  /\ webSessions' = WebSwept
  /\ NoResponse
  /\ UNCHANGED <<lastBuild, nextToken, dockerIface, envImage, images, sessions, order,
                 containerCount, containers, nextSid, now, decs>>
\* Object.keys(sessions).forEach: cleanupSession is called, not awaited, for
\* every session that is expired when the timer fires; then the web sessions
\* older than 24 hours are deleted
Sweep ==
  /\ Room(Cardinality(ExpiredIds))
  /\ inflight' = SpawnAll(inflight, ExpiredIds)
  /\ webSessions' = WebSwept
  /\ NoResponse
  /\ UNCHANGED <<lastBuild, nextToken, dockerIface, envImage, images, sessions, order,
                 containerCount, containers, nextSid, now, decs>>

\* ---- environment -----------------------------------------------------------
Tick ==
  /\ now < MaxTime
  /\ now' = now + 1
  /\ NoResponse
  /\ UNCHANGED <<lastBuild, webSessions, nextToken, dockerIface, envImage, images, sessions, order, containerCount, containers,
                 inflight, nextSid, decs>>

\* HostConfig.AutoRemove: the daemon removes a container once it has stopped
AutoRemove(cid) ==
  /\ dockerIface = "real"
  /\ RuntimeState(cid) = "stopped"
  /\ containers' = With(containers, cid, "removed")
  /\ NoResponse
  /\ UNCHANGED <<lastBuild, webSessions, nextToken, dockerIface, envImage, images, sessions, order, containerCount, inflight,
                 nextSid, now, decs>>

\* ---- POST /api/execute-command ----------------------------------------------
NoCommand == ""                  \* a body without `command`
Commands == {"ls", "pwd"}        \* command texts submitted
LOG_CAP == 10                    \* session.logs.length > 10

\* the response of an execution: a response with the `output` of its body
Reply(sid, status, mock, out, output) ==
  ev' = [act |-> "execWeb", sid |-> sid, status |-> status, mock |-> mock,
         out |-> out, output |-> output]

\* logEntry; `n` stands for the identity of the object, which the handler keeps
\* and writes to after the command has run, `result` for output/exitCode/error
LogEntry(n, cmd, who) ==
  [n |-> n, command |-> cmd, webUser |-> who, timestamp |-> now, result |-> "-"]

PushLogNoPop(logs, entry) == <<entry>> \o logs
\* session.logs.unshift(logEntry); if (session.logs.length > 10) session.logs.pop()
PushLog(logs, entry) ==
  LET l == <<entry>> \o logs
  IN IF Len(l) > LOG_CAP THEN SubSeq(l, 1, Len(l) - 1) ELSE l

\* session.lastAccessed = Date.now(); session.commandCount = (... || 0) + 1
Touch(s) == [s EXCEPT !.lastAccessed = now, !.commandCount = @ + 1]

\* logEntry.output / logEntry.exitCode / logEntry.error = ...: a write to the
\* entry object, seen in the session's log while the entry is still in it
Noted(reg, sid, n, result) ==
  IF sid \in DOMAIN reg
  THEN [reg EXCEPT ![sid].logs =
          [i \in 1..Len(@) |-> IF @[i].n = n THEN [@[i] EXCEPT !.result = result] ELSE @[i]]]
  ELSE reg

SwitchToggle(reg, sid) ==
  IF sid \in DOMAIN reg THEN [reg EXCEPT ![sid].isMock = ~@] ELSE reg
SwitchAndRehome(reg, sid) ==
  IF sid \in DOMAIN reg
  THEN [reg EXCEPT ![sid].isMock = TRUE, ![sid].containerId = MockCid(sid)]
  ELSE reg
\* session.isMock = true, on the session object the handler holds
SwitchToMock(reg, sid) ==
  IF sid \in DOMAIN reg THEN [reg EXCEPT ![sid].isMock = TRUE] ELSE reg

\* the template strings of the two mock answers, and the collected stdout
MockOutputCanned(cmd, time, sid, user) ==
  [text |-> "mock", command |-> "-", time |-> time, sessionId |-> sid, user |-> user]
MockOutput(cmd, time, sid, user) ==
  [text |-> "mock", command |-> cmd, time |-> time, sessionId |-> sid, user |-> user]
SwitchedOutput(cmd) == [text |-> "switched", command |-> cmd]
RealOutput(cmd) == [text |-> "stdout", command |-> cmd]
NoOutput == [text |-> "-"]

ExecTask(pc, sid, s, who, cmd) ==
  [op |-> "execWeb", pc |-> pc, sid |-> sid, cid |-> s.containerId, who |-> who,
   cmd |-> cmd, n |-> s.commandCount, user |-> s.userId]

\* container.exec and exec.start: the stub resolves; the daemon runs a command
\* only in a running container
ExecOutcomes(cid) ==
  IF dockerIface = "mock" THEN {"ok"}
  ELSE IF RuntimeState(cid) = "running" THEN {"ok", "enoent", "error"}
  ELSE {"enoent", "error"}

\* the stream ends and exec.inspect() gives the exit code ("ok": 0), or the
\* stream emits an error, or inspect rejects
StreamOutcomes ==
  IF dockerIface = "mock" THEN {"ok"} ELSE {"ok", "nonzero", "error", "inspect"}

ExecWebArriveTouchFirst(who, sid, cmd, audit) ==
  /\ IF cmd = NoCommand
     THEN /\ Respond("execWeb", sid, 400, FALSE, "-")
          /\ UNCHANGED <<sessions, inflight>>
     ELSE IF ~Known(sid)
     THEN /\ Respond("execWeb", sid, 401, FALSE, "-")
          /\ UNCHANGED <<sessions, inflight>>
     ELSE IF Expired(sessions[sid])
     THEN /\ Room(1)
          /\ inflight' = Spawn(inflight, CleanupTask("expiry", sid, "-"))
          /\ Respond("execWeb", sid, 401, FALSE, "expired")
          /\ UNCHANGED sessions
     ELSE IF Forbidden(sessions[sid], who)
     THEN /\ sessions' = [sessions EXCEPT ![sid] = Touch(@)]
          /\ Respond("execWeb", sid, 403, FALSE, "-")
          /\ UNCHANGED inflight
     ELSE IF audit = "fail"
     THEN /\ sessions' = [sessions EXCEPT ![sid] = Touch(@)]
          /\ Reply(sid, 500, FALSE, "audit", NoOutput)
          /\ UNCHANGED inflight
     ELSE LET s == Touch(sessions[sid])
          IN /\ Room(1)
             /\ sessions' = [sessions EXCEPT ![sid] =
                    [s EXCEPT !.logs = PushLog(@, LogEntry(s.commandCount, cmd, who))]]
             /\ inflight' = Spawn(inflight,
                    ExecTask(IF s.isMock THEN "mockTimer" ELSE "exec", sid, s, who, cmd))
             /\ NoResponse
  /\ UNCHANGED <<lastBuild, webSessions, nextToken, dockerIface, envImage, images, order, containerCount, containers, nextSid, now, decs>>
ExecWebArriveAuthFirst(who, sid, cmd, audit) ==
  /\ IF cmd = NoCommand
     THEN /\ Respond("execWeb", sid, 400, FALSE, "-")
          /\ UNCHANGED <<sessions, inflight>>
     ELSE IF ~Known(sid)
     THEN /\ Respond("execWeb", sid, 401, FALSE, "-")
          /\ UNCHANGED <<sessions, inflight>>
     ELSE IF Forbidden(sessions[sid], who)
     THEN /\ Respond("execWeb", sid, 403, FALSE, "-")
          /\ UNCHANGED <<sessions, inflight>>
     ELSE IF Expired(sessions[sid])
     THEN /\ Room(1)
          /\ inflight' = Spawn(inflight, CleanupTask("expiry", sid, "-"))
          /\ Respond("execWeb", sid, 401, FALSE, "expired")
          /\ UNCHANGED sessions
     ELSE IF audit = "fail"
     THEN /\ sessions' = [sessions EXCEPT ![sid] = Touch(@)]
          /\ Reply(sid, 500, FALSE, "audit", NoOutput)
          /\ UNCHANGED inflight
     ELSE LET s == Touch(sessions[sid])
          IN /\ Room(1)
             /\ sessions' = [sessions EXCEPT ![sid] =
                    [s EXCEPT !.logs = PushLog(@, LogEntry(s.commandCount, cmd, who))]]
             /\ inflight' = Spawn(inflight,
                    ExecTask(IF s.isMock THEN "mockTimer" ELSE "exec", sid, s, who, cmd))
             /\ NoResponse
  /\ UNCHANGED <<lastBuild, webSessions, nextToken, dockerIface, envImage, images, order, containerCount, containers, nextSid, now, decs>>
\* the handler up to its first await (or, for a mock session, up to setTimeout)
ExecWebArrive(who, sid, cmd, audit) ==
  /\ IF cmd = NoCommand
     THEN /\ Respond("execWeb", sid, 400, FALSE, "-")
          /\ UNCHANGED <<sessions, inflight>>
     ELSE IF ~Known(sid)
     THEN /\ Respond("execWeb", sid, 401, FALSE, "-")
          /\ UNCHANGED <<sessions, inflight>>
     ELSE IF Expired(sessions[sid])
     THEN /\ Room(1)
          /\ inflight' = Spawn(inflight, CleanupTask("expiry", sid, "-"))
          /\ Respond("execWeb", sid, 401, FALSE, "expired")
          /\ UNCHANGED sessions
     ELSE IF Forbidden(sessions[sid], who)
     THEN /\ Respond("execWeb", sid, 403, FALSE, "-")
          /\ UNCHANGED <<sessions, inflight>>
     ELSE IF audit = "fail"
     THEN /\ sessions' = [sessions EXCEPT ![sid] = Touch(@)]
          /\ Reply(sid, 500, FALSE, "audit", NoOutput)
          /\ UNCHANGED inflight
     ELSE LET s == Touch(sessions[sid])
          IN /\ Room(1)
             /\ sessions' = [sessions EXCEPT ![sid] =
                    [s EXCEPT !.logs = PushLog(@, LogEntry(s.commandCount, cmd, who))]]
             /\ inflight' = Spawn(inflight,
                    ExecTask(IF s.isMock THEN "mockTimer" ELSE "exec", sid, s, who, cmd))
             /\ NoResponse
  /\ UNCHANGED <<lastBuild, webSessions, nextToken, dockerIface, envImage, images, order, containerCount, containers, nextSid, now, decs>>

\* the setTimeout callback of the mock branch
MockTimerDone(t) ==
  /\ t \in Tasks /\ t.op = "execWeb" /\ t.pc = "mockTimer"
  /\ sessions' = Noted(sessions, t.sid, t.n, "ok")
  /\ Reply(t.sid, 200, TRUE, "mockTimer", MockOutput(t.cmd, now, t.sid, t.user))
  /\ inflight' = Retire(inflight, t)
  /\ UNCHANGED <<lastBuild, webSessions, nextToken, dockerIface, envImage, images, order, containerCount, containers, nextSid, now, decs>>

ExecCatchNoSwitch(t, out) ==
  /\ sessions' = Noted(sessions, t.sid, t.n, "error")
  /\ IF out = "enoent"
     THEN Reply(t.sid, 200, TRUE, out, SwitchedOutput(t.cmd))
     ELSE Reply(t.sid, 500, FALSE, out, NoOutput)
\* catch (error): the switch to mock mode on a socket error, 500 otherwise
ExecCatch(t, out) ==
  IF out = "enoent"
  THEN /\ sessions' = SwitchToMock(Noted(sessions, t.sid, t.n, "error"), t.sid)
       /\ Reply(t.sid, 200, TRUE, out, SwitchedOutput(t.cmd))
  ELSE /\ sessions' = Noted(sessions, t.sid, t.n, "error")
       /\ Reply(t.sid, 500, FALSE, out, NoOutput)

\* await container.exec(...) settles
ExecDone(t, out) ==
  /\ t \in Tasks /\ t.op = "execWeb" /\ t.pc = "exec"
  /\ out \in ExecOutcomes(t.cid)
  /\ IF out = "ok"
     THEN /\ inflight' = Spawn(Retire(inflight, t), [t EXCEPT !.pc = "execStart"])
          /\ NoResponse
          /\ UNCHANGED sessions
     ELSE /\ ExecCatch(t, out)
          /\ inflight' = Retire(inflight, t)
  /\ UNCHANGED <<lastBuild, webSessions, nextToken, dockerIface, envImage, images, order, containerCount, containers, nextSid, now, decs>>

\* await exec.start() settles; the stream listeners are attached
ExecStartDone(t, out) ==
  /\ t \in Tasks /\ t.op = "execWeb" /\ t.pc = "execStart"
  /\ out \in ExecOutcomes(t.cid)
  /\ IF out = "ok"
     THEN /\ inflight' = Spawn(Retire(inflight, t), [t EXCEPT !.pc = "stream"])
          /\ NoResponse
          /\ UNCHANGED sessions
     ELSE /\ ExecCatch(t, out)
          /\ inflight' = Retire(inflight, t)
  /\ UNCHANGED <<lastBuild, webSessions, nextToken, dockerIface, envImage, images, order, containerCount, containers, nextSid, now, decs>>

\* the stream's 'end' (with exec.inspect) or 'error' listener runs
StreamDone(t, out) ==
  /\ t \in Tasks /\ t.op = "execWeb" /\ t.pc = "stream"
  /\ out \in StreamOutcomes
  /\ IF out \in {"ok", "nonzero"}
     THEN /\ sessions' = Noted(sessions, t.sid, t.n, out)
          /\ Reply(t.sid, 200, FALSE, out, RealOutput(t.cmd))
     ELSE /\ sessions' = Noted(sessions, t.sid, t.n, "error")
          /\ Reply(t.sid, 500, FALSE, out, NoOutput)
  /\ inflight' = Retire(inflight, t)
  /\ UNCHANGED <<lastBuild, webSessions, nextToken, dockerIface, envImage, images, order, containerCount, containers, nextSid, now, decs>>

Next ==
  \/ \E who \in Creators : CreateWebStart(who)
  \/ \E t \in Tasks, out \in Outcomes : CreateWebContainerDone(t, out)
  \/ \E t \in Tasks, out \in Outcomes : CreateWebStartDone(t, out)
  \/ \E u \in ApiUserIds : CreateApiStart(u)
  \/ \E t \in Tasks, out \in Outcomes : CreateApiContainerDone(t, out)
  \/ \E t \in Tasks, out \in Outcomes : CreateApiStartDone(t, out)
  \/ \E who \in WebUsers, sid \in SidRange : TerminateWeb(who, sid)
  \/ \E sid \in SidRange : TerminateApi(sid)
  \/ \E t \in Tasks, out \in Outcomes : CleanupStopDone(t, out)
  \/ \E t \in Tasks, out \in Outcomes : CleanupRemoveDone(t, out)
  \/ Sweep
  \/ Tick
  \/ \E cid \in SidRange : AutoRemove(cid)

Spec == Init /\ [][Next]_vars

\* ---- executions on the web route, with a few commands per session ----------
MaxCommands == 2                 \* commands accepted per session
AuditOutcomes == {"ok", "fail"}  \* fs.appendFileSync returns or throws
StreamResults == {"ok", "nonzero", "error", "inspect"}

ExecSids == MAX_CONTAINERS        \* sessions opened: as many as may run
LogTexts == {"ls"}               \* one text, where only the order of commands counts
ExecUsers == {"alice", "bob"}    \* the owner and another user
Requesters == WebUsers \cup ExecUsers   \* owner, admin and another user
AuthCommands == ExecSids         \* one command: the decision is taken on arrival

Accepts(sid, bound) == Known(sid) => sessions[sid].commandCount < bound

ExecNext ==
  \/ \E who \in Creators : nextSid <= ExecSids /\ CreateWebStart(who)
  \/ \E t \in Tasks, out \in Outcomes : CreateWebContainerDone(t, out)
  \/ \E t \in Tasks, out \in Outcomes : CreateWebStartDone(t, out)
  \/ \E who \in ExecUsers, sid \in SidRange, cmd \in Commands \cup {NoCommand},
        audit \in AuditOutcomes :
        Accepts(sid, MaxCommands) /\ ExecWebArrive(who, sid, cmd, audit)
  \/ \E t \in Tasks : MockTimerDone(t)
  \/ \E t \in Tasks, out \in Outcomes : ExecDone(t, out)
  \/ \E t \in Tasks, out \in Outcomes : ExecStartDone(t, out)
  \/ \E t \in Tasks, out \in StreamResults : StreamDone(t, out)
  \/ \E t \in Tasks, out \in Outcomes : CleanupStopDone(t, out)
  \/ \E t \in Tasks, out \in Outcomes : CleanupRemoveDone(t, out)
  \/ Tick

ExecSpec == Init /\ [][ExecNext]_vars

\* every suspended cleanupSession is resumed: its Docker call settles
CleanupSettles ==
  /\ WF_vars(\E t \in Tasks, out \in Outcomes : CleanupStopDone(t, out))
  /\ WF_vars(\E t \in Tasks, out \in Outcomes : CleanupRemoveDone(t, out))

\* the timer fires, the clock advances, every Docker call settles, and a call
\* that can succeed again and again does succeed in the end
LiveFairness ==
  /\ WF_vars(Sweep)
  /\ WF_vars(Tick)
  /\ CleanupSettles
  /\ SF_vars(\E t \in Tasks : CleanupStopDone(t, "ok"))
  /\ SF_vars(\E t \in Tasks : CleanupRemoveDone(t, "ok"))

\* the same with the periodic sweep running
ExecFairNext == ExecNext \/ Sweep

ExecFair == Init /\ [][ExecFairNext]_vars /\ LiveFairness

\* ---- who may run a command or end a session on the web routes --------------
AuthNext ==
  \/ \E who \in Creators : nextSid <= ExecSids /\ CreateWebStart(who)
  \/ \E t \in Tasks, out \in Outcomes : CreateWebContainerDone(t, out)
  \/ \E t \in Tasks, out \in Outcomes : CreateWebStartDone(t, out)
  \/ \E who \in Requesters, sid \in SidRange, cmd \in LogTexts :
        Accepts(sid, AuthCommands) /\ ExecWebArrive(who, sid, cmd, "ok")
  \/ \E t \in Tasks : MockTimerDone(t)
  \/ \E t \in Tasks, out \in Outcomes : ExecDone(t, out)
  \/ \E t \in Tasks, out \in Outcomes : ExecStartDone(t, out)
  \/ \E t \in Tasks, out \in StreamResults : StreamDone(t, out)
  \/ \E who \in Requesters, sid \in SidRange : TerminateWeb(who, sid)
  \/ \E t \in Tasks, out \in Outcomes : CleanupStopDone(t, out)
  \/ \E t \in Tasks, out \in Outcomes : CleanupRemoveDone(t, out)
  \/ Tick

AuthSpec == Init /\ [][AuthNext]_vars

\* ---- the recent log: one session, as many commands as overfill the log -----
LogCommands == LOG_CAP + 1

LogNext ==
  \/ \E who \in Creators : nextSid <= ExecSids /\ CreateWebStart(who)
  \/ \E t \in Tasks, out \in {"ok", "enoent"} : CreateWebContainerDone(t, out)
  \/ \E t \in Tasks, out \in {"ok", "enoent"} : CreateWebStartDone(t, out)
  \/ \E who \in Creators, sid \in SidRange, cmd \in LogTexts :
        Accepts(sid, LogCommands) /\ ExecWebArrive(who, sid, cmd, "ok")
  \/ \E t \in Tasks : MockTimerDone(t)
  \/ \E t \in Tasks, out \in {"ok", "enoent"} : ExecDone(t, out)
  \/ \E t \in Tasks : ExecStartDone(t, "ok")
  \/ \E t \in Tasks : StreamDone(t, "ok")
  \/ Tick

LogSpec == Init /\ [][LogNext]_vars

\* ---- the periodic sweep over idle sessions, under fairness -----------------
LiveNext ==
  \/ \E who \in Creators : CreateWebStart(who)
  \/ \E t \in Tasks, out \in Outcomes : CreateWebContainerDone(t, out)
  \/ \E t \in Tasks, out \in Outcomes : CreateWebStartDone(t, out)
  \/ \E t \in Tasks, out \in Outcomes : CleanupStopDone(t, out)
  \/ \E t \in Tasks, out \in Outcomes : CleanupRemoveDone(t, out)
  \/ Sweep
  \/ Tick
  \/ \E cid \in SidRange : AutoRemove(cid)

LiveSpec == Init /\ [][LiveNext]_vars /\ LiveFairness

\* ---- POST /execute-command and POST /execute-command-legacy (API key) ------
DeviceIds == ApiUserIds          \* x-device-id of the legacy client
ApiExecOps == {"execApi", "execLegacy"}

\* the response of an execution on the API-key routes: no isMock in any body
ReplyAs(act, sid, status, out, output) ==
  ev' = [act |-> act, sid |-> sid, status |-> status, mock |-> FALSE,
         out |-> out, output |-> output]

ApiExecTask(op, pc, sid, cid, user, cmd) ==
  [op |-> op, pc |-> pc, sid |-> sid, cid |-> cid, who |-> "-",
   cmd |-> cmd, n |-> 0, user |-> user]

\* validateSession, then the handler up to `await container.exec`
ExecApiArrive(sid, cmd, audit) ==
  /\ IF ~Known(sid)
     THEN /\ ReplyAs("execApi", sid, 401, "-", NoOutput)
          /\ UNCHANGED <<sessions, inflight>>
     ELSE IF Expired(sessions[sid])
     THEN /\ Room(1)
          /\ inflight' = Spawn(inflight, CleanupTask("expiry", sid, "-"))
          /\ ReplyAs("execApi", sid, 401, "expired", NoOutput)
          /\ UNCHANGED sessions
     ELSE /\ sessions' = [sessions EXCEPT ![sid].lastAccessed = now]
          /\ IF cmd = NoCommand
             THEN /\ ReplyAs("execApi", sid, 400, "-", NoOutput)
                  /\ UNCHANGED inflight
             ELSE IF audit = "fail"
             THEN /\ ReplyAs("execApi", sid, 500, "audit", NoOutput)
                  /\ UNCHANGED inflight
             ELSE /\ Room(1)
                  /\ inflight' = Spawn(inflight,
                       ApiExecTask("execApi", "exec", sid, sessions[sid].containerId,
                                   sessions[sid].userId, cmd))
                  /\ NoResponse
  /\ UNCHANGED <<lastBuild, webSessions, nextToken, dockerIface, envImage, images, order, containerCount, containers, nextSid, now, decs>>

\* for (const [id, session] of Object.entries(sessions)): the first session of
\* the device, 0 if there is none
DeviceSession(deviceId) ==
  LET idx == {i \in 1..Len(order) : sessions[order[i]].userId = deviceId}
  IN IF idx = {} THEN 0 ELSE order[CHOOSE i \in idx : \A j \in idx : i <= j]

\* the legacy handler up to its first await: the session of the device is used
\* as it is found, a device without one gets a container first
ExecLegacyArrive(deviceId, cmd, audit) ==
  LET sid == DeviceSession(deviceId)
  IN IF cmd = NoCommand
     THEN /\ ReplyAs("execLegacy", 0, 400, "-", NoOutput)
          /\ UNCHANGED <<lastBuild, webSessions, nextToken, dockerIface, envImage, images, sessions, order, containerCount, containers,
                         inflight, nextSid, now, decs>>
     ELSE IF sid # 0
     THEN /\ sessions' = [sessions EXCEPT ![sid].lastAccessed = now]
          /\ IF audit = "fail"
             THEN /\ ReplyAs("execLegacy", sid, 500, "audit", NoOutput)
                  /\ UNCHANGED inflight
             ELSE /\ Room(1)
                  /\ inflight' = Spawn(inflight,
                       ApiExecTask("execLegacy", "exec", sid, sessions[sid].containerId,
                                   sessions[sid].userId, cmd))
                  /\ NoResponse
          /\ UNCHANGED <<lastBuild, webSessions, nextToken, dockerIface, envImage, images, order, containerCount, containers, nextSid,
                         now, decs>>
     ELSE IF AtCapacity(containerCount)
     THEN /\ ReplyAs("execLegacy", 0, 503, "-", NoOutput)
          /\ UNCHANGED <<lastBuild, webSessions, nextToken, dockerIface, envImage, images, sessions, order, containerCount, containers,
                         inflight, nextSid, now, decs>>
     ELSE /\ nextSid <= MaxSid
          /\ Room(1)
          /\ inflight' = Spawn(inflight,
               ApiExecTask("execLegacy", "createContainer", nextSid, nextSid, deviceId, cmd))
          /\ CreateCall(nextSid)
          /\ nextSid' = nextSid + 1
          /\ NoResponse
          /\ UNCHANGED <<lastBuild, webSessions, nextToken, dockerIface, envImage, sessions, order, containerCount, containers,
                         now, decs>>

\* await docker.createContainer(...) of the legacy handler settles
LegacyContainerDone(t, out) ==
  /\ t \in Tasks /\ t.op = "execLegacy" /\ t.pc = "createContainer"
  /\ out \in CreateOutcomes
  /\ IF out = "ok"
     THEN /\ containers' = Runtime(t.cid, "created")
          /\ inflight' = Spawn(Retire(inflight, t), [t EXCEPT !.pc = "start"])
          /\ NoResponse
     ELSE /\ inflight' = Retire(inflight, t)
          /\ ReplyAs("execLegacy", t.sid, 500, out, NoOutput)
          /\ UNCHANGED containers
  /\ UNCHANGED <<lastBuild, webSessions, nextToken, dockerIface, envImage, images, sessions, order, containerCount, nextSid, now, decs>>

\* await container.start() settles: the session is registered and the handler
\* goes on to the command, up to `await container.exec`
LegacyStartDone(t, out, audit) ==
  /\ t \in Tasks /\ t.op = "execLegacy" /\ t.pc = "start"
  /\ out \in StartOutcomes
  /\ IF out = "ok"
     THEN /\ containers' = Runtime(t.cid, "running")
          /\ Register(t.sid, RealSession(t.user, "none", t.cid))
          /\ IF audit = "fail"
             THEN /\ inflight' = Retire(inflight, t)
                  /\ ReplyAs("execLegacy", t.sid, 500, "audit", NoOutput)
             ELSE /\ inflight' = Spawn(Retire(inflight, t), [t EXCEPT !.pc = "exec"])
                  /\ NoResponse
     ELSE /\ inflight' = Retire(inflight, t)
          /\ ReplyAs("execLegacy", t.sid, 500, out, NoOutput)
          /\ UNCHANGED <<sessions, order, containerCount, containers>>
  /\ UNCHANGED <<lastBuild, webSessions, nextToken, dockerIface, envImage, images, nextSid, now, decs>>

\* await container.exec(...) settles; catch (error): 500
ApiExecDone(t, out) ==
  /\ t \in Tasks /\ t.op \in ApiExecOps /\ t.pc = "exec"
  /\ out \in ExecOutcomes(t.cid)
  /\ IF out = "ok"
     THEN /\ inflight' = Spawn(Retire(inflight, t), [t EXCEPT !.pc = "execStart"])
          /\ NoResponse
     ELSE /\ inflight' = Retire(inflight, t)
          /\ ReplyAs(t.op, t.sid, 500, out, NoOutput)
  /\ UNCHANGED <<lastBuild, webSessions, nextToken, dockerIface, envImage, images, sessions, order, containerCount, containers,
                 nextSid, now, decs>>

\* await exec.start() settles
ApiExecStartDone(t, out) ==
  /\ t \in Tasks /\ t.op \in ApiExecOps /\ t.pc = "execStart"
  /\ out \in ExecOutcomes(t.cid)
  /\ IF out = "ok"
     THEN /\ inflight' = Spawn(Retire(inflight, t), [t EXCEPT !.pc = "stream"])
          /\ NoResponse
     ELSE /\ inflight' = Retire(inflight, t)
          /\ ReplyAs(t.op, t.sid, 500, out, NoOutput)
  /\ UNCHANGED <<lastBuild, webSessions, nextToken, dockerIface, envImage, images, sessions, order, containerCount, containers,
                 nextSid, now, decs>>

\* the stream's 'end' or 'error' listener runs: a non-zero exit code is a 400
ApiStreamDone(t, out) ==
  /\ t \in Tasks /\ t.op \in ApiExecOps /\ t.pc = "stream"
  /\ out \in StreamOutcomes
  /\ IF out = "ok" THEN ReplyAs(t.op, t.sid, 200, out, RealOutput(t.cmd))
     ELSE IF out = "nonzero" THEN ReplyAs(t.op, t.sid, 400, out, RealOutput(t.cmd))
     ELSE ReplyAs(t.op, t.sid, 500, out, NoOutput)
  /\ inflight' = Retire(inflight, t)
  /\ UNCHANGED <<lastBuild, webSessions, nextToken, dockerIface, envImage, images, sessions, order, containerCount, containers,
                 nextSid, now, decs>>

ApiNext ==
  \/ \E u \in ApiUserIds : nextSid <= ExecSids /\ CreateApiStart(u)
  \/ \E t \in Tasks, out \in Outcomes : CreateApiContainerDone(t, out)
  \/ \E t \in Tasks, out \in Outcomes : CreateApiStartDone(t, out)
  \/ \E sid \in SidRange, cmd \in LogTexts \cup {NoCommand}, audit \in AuditOutcomes :
        ExecApiArrive(sid, cmd, audit)
  \/ \E d \in DeviceIds, cmd \in LogTexts \cup {NoCommand}, audit \in AuditOutcomes :
        ExecLegacyArrive(d, cmd, audit)
  \/ \E t \in Tasks, out \in Outcomes : LegacyContainerDone(t, out)
  \/ \E t \in Tasks, out \in Outcomes, audit \in AuditOutcomes : LegacyStartDone(t, out, audit)
  \/ \E t \in Tasks, out \in Outcomes : ApiExecDone(t, out)
  \/ \E t \in Tasks, out \in Outcomes : ApiExecStartDone(t, out)
  \/ \E t \in Tasks, out \in StreamResults : ApiStreamDone(t, out)
  \/ \E t \in Tasks, out \in Outcomes : CleanupStopDone(t, out)
  \/ \E t \in Tasks, out \in Outcomes : CleanupRemoveDone(t, out)
  \/ Tick

ApiSpec == Init /\ [][ApiNext]_vars

\* ---- GET /api/sessions and GET /api/session/:id ----------------------------
\* session.webUser || 'API User'
OwnerLabel(s) == IF s.webUser = "none" THEN "API User" ELSE s.webUser

\* the entry an admin gets for a session
AdminEntry(id, s) ==
  [id |-> id, userId |-> s.userId, webUser |-> OwnerLabel(s), created |-> s.created,
   lastAccessed |-> s.lastAccessed,
   expiresIn |-> SESSION_TIMEOUT - (now - s.lastAccessed),
   containerId |-> s.containerId, isActive |-> TRUE, idleTime |-> now - s.lastAccessed]

\* the entry of the list of a regular user, and the body of the detail view
UserEntry(id, s) ==
  [id |-> id, userId |-> s.userId, created |-> s.created,
   lastAccessed |-> s.lastAccessed,
   expiresIn |-> SESSION_TIMEOUT - (now - s.lastAccessed)]

VisibleToAll(s, who) == TRUE
\* session.webUser === req.webSession.username
Visible(s, who) == s.webUser = who

\* Object.entries(sessions) [.filter(...)] .map(...)
SessionList(who) ==
  IF IsAdmin(who)
  THEN [i \in 1..Len(order) |-> AdminEntry(order[i], sessions[order[i]])]
  ELSE LET own == SelectSeq(order, LAMBDA id : Visible(sessions[id], who))
       IN [i \in 1..Len(own) |-> UserEntry(own[i], sessions[own[i]])]

\* the response of a view: the requester and the entries of the body
View(act, sid, status, who, body) ==
  ev' = [act |-> act, sid |-> sid, status |-> status, mock |-> FALSE, out |-> "-",
         who |-> who, body |-> body]

ListSessions(who) ==
  /\ View("list", 0, 200, who, SessionList(who))
  /\ UNCHANGED <<lastBuild, webSessions, nextToken, dockerIface, envImage, images, sessions, order, containerCount, containers,
                 inflight, nextSid, now, decs>>

GetSession(who, sid) ==
  /\ IF ~Known(sid) THEN View("detail", sid, 404, who, <<>>)
     ELSE IF Forbidden(sessions[sid], who) THEN View("detail", sid, 403, who, <<>>)
     ELSE View("detail", sid, 200, who, <<UserEntry(sid, sessions[sid])>>)
  /\ UNCHANGED <<lastBuild, webSessions, nextToken, dockerIface, envImage, images, sessions, order, containerCount, containers,
                 inflight, nextSid, now, decs>>

ViewNext ==
  \/ \E who \in ExecUsers : CreateWebStart(who)
  \/ \E t \in Tasks, out \in Outcomes : CreateWebContainerDone(t, out)
  \/ \E t \in Tasks, out \in Outcomes : CreateWebStartDone(t, out)
  \/ \E u \in ApiUserIds : CreateApiStart(u)
  \/ \E t \in Tasks, out \in Outcomes : CreateApiContainerDone(t, out)
  \/ \E t \in Tasks, out \in Outcomes : CreateApiStartDone(t, out)
  \/ \E who \in Requesters : ListSessions(who)
  \/ \E who \in Requesters, sid \in SidRange : GetSession(who, sid)
  \/ \E who \in ExecUsers, sid \in SidRange : TerminateWeb(who, sid)
  \/ \E t \in Tasks, out \in Outcomes : CleanupStopDone(t, out)
  \/ \E t \in Tasks, out \in Outcomes : CleanupRemoveDone(t, out)
  \/ Tick

ViewSpec == Init /\ [][ViewNext]_vars

\* ---- two sessions of one user, one command each -----------------------------
OwnNext ==
  \/ \E who \in Creators : CreateWebStart(who)
  \/ \E t \in Tasks, out \in Outcomes : CreateWebContainerDone(t, out)
  \/ \E t \in Tasks, out \in Outcomes : CreateWebStartDone(t, out)
  \/ \E who \in Creators, sid \in SidRange, cmd \in LogTexts :
        Accepts(sid, AuthCommands) /\ ExecWebArrive(who, sid, cmd, "ok")
  \/ \E t \in Tasks : MockTimerDone(t)
  \/ \E t \in Tasks, out \in Outcomes : ExecDone(t, out)
  \/ \E t \in Tasks, out \in Outcomes : ExecStartDone(t, out)
  \/ \E t \in Tasks, out \in StreamResults : StreamDone(t, out)
  \/ \E t \in Tasks, out \in Outcomes : CleanupStopDone(t, out)
  \/ \E t \in Tasks, out \in Outcomes : CleanupRemoveDone(t, out)
  \/ Tick

OwnSpec == Init /\ [][OwnNext]_vars

\* ---- commands sent by a user who owns no session ----------------------------
Strangers == ExecUsers \ Creators

OrderNext ==
  \/ \E who \in Creators : CreateWebStart(who)
  \/ \E t \in Tasks, out \in Outcomes : CreateWebContainerDone(t, out)
  \/ \E t \in Tasks, out \in Outcomes : CreateWebStartDone(t, out)
  \/ \E who \in Strangers, sid \in SidRange, cmd \in LogTexts \cup {NoCommand} :
        ExecWebArrive(who, sid, cmd, "ok")
  \/ \E t \in Tasks, out \in Outcomes : CleanupStopDone(t, out)
  \/ \E t \in Tasks, out \in Outcomes : CleanupRemoveDone(t, out)
  \/ Tick

OrderSpec == Init /\ [][OrderNext]_vars

\* ---- POST /default-image (docker-routes.js) ---------------------------------
NoImage == ""                    \* a body without `image`
ImageNames == {USER_CONTAINER_IMAGE, "bdgtest/terminal:latest"}

\* requireAdmin and the handler up to `await dockerAuth.imageExists(image)`
SetDefaultStart(who, image) ==
  /\ IF ~IsAdmin(who)
     THEN /\ Respond("setDefault", 0, 403, FALSE, "-")
          /\ UNCHANGED inflight
     ELSE IF image = NoImage
     THEN /\ Respond("setDefault", 0, 400, FALSE, "-")
          /\ UNCHANGED inflight
     ELSE /\ Room(1)
          /\ inflight' = Spawn(inflight,
               [op |-> "setDefault", pc |-> "imageExists", sid |-> 0, cid |-> 0,
                who |-> who, image |-> image])
          /\ NoResponse
  /\ UNCHANGED <<lastBuild, webSessions, nextToken, dockerIface, envImage, images, sessions, order, containerCount,
                 containers, nextSid, now, decs>>

\* imageExists has answered: process.env.USER_CONTAINER_IMAGE = image, then
\* the audit line (fs.appendFileSync returns or throws)
SetDefaultDone(t, exists, audit) ==
  /\ t \in Tasks /\ t.op = "setDefault" /\ t.pc = "imageExists"
  /\ IF ~exists
     THEN /\ Respond("setDefault", 0, 404, FALSE, "absent")
          /\ UNCHANGED envImage
     ELSE /\ envImage' = t.image
          /\ Respond("setDefault", 0, IF audit = "fail" THEN 500 ELSE 200, FALSE, audit)
  /\ inflight' = Retire(inflight, t)
  /\ UNCHANGED <<lastBuild, webSessions, nextToken, dockerIface, images, sessions, order, containerCount,
                 containers, nextSid, now, decs>>

ImageNext ==
  \/ \E who \in Creators : CreateWebStart(who)
  \/ \E t \in Tasks, out \in Outcomes : CreateWebContainerDone(t, out)
  \/ \E t \in Tasks, out \in Outcomes : CreateWebStartDone(t, out)
  \/ \E who \in WebUsers, image \in ImageNames \cup {NoImage} : SetDefaultStart(who, image)
  \/ \E t \in Tasks, exists \in BOOLEAN, audit \in AuditOutcomes :
        SetDefaultDone(t, exists, audit)

ImageSpec == Init /\ [][ImageNext]_vars

\* ---- the legacy route alone: every session belongs to a device ---------------
LegacyNext ==
  \/ \E d \in DeviceIds, cmd \in LogTexts \cup {NoCommand}, audit \in AuditOutcomes :
        ExecLegacyArrive(d, cmd, audit)
  \/ \E t \in Tasks, out \in Outcomes : LegacyContainerDone(t, out)
  \/ \E t \in Tasks, out \in Outcomes, audit \in AuditOutcomes : LegacyStartDone(t, out, audit)
  \/ \E t \in Tasks, out \in Outcomes : ApiExecDone(t, out)
  \/ \E t \in Tasks, out \in Outcomes : ApiExecStartDone(t, out)
  \/ \E t \in Tasks, out \in StreamResults : ApiStreamDone(t, out)
  \/ Tick

LegacySpec == Init /\ [][LegacyNext]_vars

\* ---- every handler that writes lastAccessed, on sessions of both kinds -------
\* x-device-id is free text: it may name a web user as well
TouchDevices == DeviceIds \cup Creators

TouchNext ==
  \/ \E who \in Creators : nextSid <= ExecSids /\ CreateWebStart(who)
  \/ \E t \in Tasks, out \in Outcomes : CreateWebContainerDone(t, out)
  \/ \E t \in Tasks, out \in Outcomes : CreateWebStartDone(t, out)
  \/ \E who \in Creators, sid \in SidRange, cmd \in LogTexts :
        Accepts(sid, AuthCommands) /\ ExecWebArrive(who, sid, cmd, "ok")
  \/ \E t \in Tasks : MockTimerDone(t)
  \/ \E t \in Tasks, out \in Outcomes : ExecDone(t, out)
  \/ \E t \in Tasks, out \in Outcomes : ExecStartDone(t, out)
  \/ \E t \in Tasks, out \in StreamResults : StreamDone(t, out)
  \/ \E d \in TouchDevices, cmd \in LogTexts : ExecLegacyArrive(d, cmd, "ok")
  \/ \E t \in Tasks, out \in Outcomes : LegacyContainerDone(t, out)
  \/ \E t \in Tasks, out \in Outcomes : LegacyStartDone(t, out, "ok")
  \/ \E t \in Tasks, out \in Outcomes : ApiExecDone(t, out)
  \/ \E t \in Tasks, out \in Outcomes : ApiExecStartDone(t, out)
  \/ \E t \in Tasks, out \in StreamResults : ApiStreamDone(t, out)
  \/ Tick

TouchSpec == Init /\ [][TouchNext]_vars

\* ---- docker-auth.js: pulling an image ------------------------------------
\* docker-auth.js builds its own client with the same `new Docker()` at load:
\* where the constructor throws, its `docker` is null (dockerIface = "mock")
NoClient == dockerIface = "mock"

\* for (let attempt = 1; attempt <= 3; attempt++)
PULL_ATTEMPTS == 3

PullTask(pc, image, attempt) ==
  [op |-> "pull", pc |-> pc, sid |-> 0, cid |-> 0, who |-> "-",
   image |-> image, attempt |-> attempt]

\* what pullDockerImage returned, after how many docker.pull calls, and the
\* answer of the last one
Returned(value, attempts, out) ==
  [act |-> "pull", sid |-> 0, status |-> 0, mock |-> FALSE, out |-> out,
   returned |-> value, attempts |-> attempts]

LoopTestLate(attempt) == attempt <= PULL_ATTEMPTS + 1
\* attempt <= 3
LoopTest(attempt) == attempt <= PULL_ATTEMPTS

\* pullDockerImage up to `await authenticateWithDockerHub()`
PullStart(image) ==
  /\ IF NoClient
     THEN /\ ev' = Returned(FALSE, 0, "-")
          /\ UNCHANGED inflight
     ELSE /\ Room(1)
          /\ inflight' = Spawn(inflight, PullTask("auth", image, 0))
          /\ NoResponse
  /\ UNCHANGED <<lastBuild, webSessions, nextToken, dockerIface, envImage, images, sessions, order, containerCount,
                 containers, nextSid, now, decs>>

\* ensureImageAvailable up to `await imageExists(imageName)`
EnsureStart(image) ==
  /\ Room(1)
  /\ inflight' = Spawn(inflight, PullTask("imageExists", image, 0))
  /\ NoResponse
  /\ UNCHANGED <<lastBuild, webSessions, nextToken, dockerIface, envImage, images, sessions, order, containerCount,
                 containers, nextSid, now, decs>>

\* imageExists has answered (false without a client): return true, or go on
\* into pullDockerImage
EnsureDone(t, exists) ==
  /\ t \in Tasks /\ t.op = "pull" /\ t.pc = "imageExists"
  /\ NoClient => ~exists
  /\ IF exists
     THEN /\ ev' = [Returned(TRUE, 0, "exists") EXCEPT !.act = "ensure"]
          /\ inflight' = Retire(inflight, t)
     ELSE IF NoClient
     THEN /\ ev' = Returned(FALSE, 0, "-")
          /\ inflight' = Retire(inflight, t)
     ELSE /\ inflight' = Spawn(Retire(inflight, t), PullTask("auth", t.image, 0))
          /\ NoResponse
  /\ UNCHANGED <<lastBuild, webSessions, nextToken, dockerIface, envImage, images, sessions, order, containerCount,
                 containers, nextSid, now, decs>>

\* authenticateWithDockerHub has returned (its value only changes the log);
\* the loop is entered and docker.pull is called for the first time
PullAuthDone(t) ==
  /\ t \in Tasks /\ t.op = "pull" /\ t.pc = "auth"
  /\ inflight' = Spawn(Retire(inflight, t), PullTask("pull", t.image, 1))
  /\ NoResponse
  /\ UNCHANGED <<lastBuild, webSessions, nextToken, dockerIface, envImage, images, sessions, order, containerCount,
                 containers, nextSid, now, decs>>

\* an attempt has failed with `out`: wait 2 s if attempt < 3, else attempt++
\* ends the loop and false is returned
AttemptFailed(t, out) ==
  IF t.attempt < PULL_ATTEMPTS
  THEN /\ inflight' = Spawn(Retire(inflight, t), PullTask("wait", t.image, t.attempt))
       /\ NoResponse
  ELSE IF LoopTest(t.attempt + 1)
  THEN /\ inflight' = Spawn(Retire(inflight, t), PullTask("pull", t.image, t.attempt + 1))
       /\ NoResponse
  ELSE /\ inflight' = Retire(inflight, t)
       /\ ev' = Returned(FALSE, t.attempt, out)

\* `await docker.pull(...)` has answered: a stream, or it threw (pullError)
PullDone(t, out) ==
  /\ t \in Tasks /\ t.op = "pull" /\ t.pc = "pull"
  /\ out \in {"ok", "fail"}
  /\ IF out = "ok"
     THEN /\ inflight' = Spawn(Retire(inflight, t), PullTask("progress", t.image, t.attempt))
          /\ NoResponse
     ELSE AttemptFailed(t, "thrown")
  /\ UNCHANGED <<lastBuild, webSessions, nextToken, dockerIface, envImage, images, sessions, order, containerCount,
                 containers, nextSid, now, decs>>

\* followProgress has called back: result.success, or err
ProgressDone(t, out) ==
  /\ t \in Tasks /\ t.op = "pull" /\ t.pc = "progress"
  /\ out \in {"ok", "fail"}
  /\ IF out = "ok"
     THEN /\ inflight' = Retire(inflight, t)
          /\ ev' = Returned(TRUE, t.attempt, "ok")
     ELSE AttemptFailed(t, "progress")
  /\ UNCHANGED <<lastBuild, webSessions, nextToken, dockerIface, envImage, images, sessions, order, containerCount,
                 containers, nextSid, now, decs>>

\* the 2000 ms timer has fired: attempt++, the loop test, the next docker.pull
PullWaitDone(t) ==
  /\ t \in Tasks /\ t.op = "pull" /\ t.pc = "wait"
  /\ IF LoopTest(t.attempt + 1)
     THEN /\ inflight' = Spawn(Retire(inflight, t), PullTask("pull", t.image, t.attempt + 1))
          /\ NoResponse
     ELSE /\ inflight' = Retire(inflight, t)
          /\ ev' = Returned(FALSE, t.attempt, "-")
  /\ UNCHANGED <<lastBuild, webSessions, nextToken, dockerIface, envImage, images, sessions, order, containerCount,
                 containers, nextSid, now, decs>>

PullNext ==
  \/ \E image \in ImageNames : PullStart(image)
  \/ \E image \in ImageNames : EnsureStart(image)
  \/ \E t \in Tasks, exists \in BOOLEAN : EnsureDone(t, exists)
  \/ \E t \in Tasks : PullAuthDone(t)
  \/ \E t \in Tasks, out \in Outcomes : PullDone(t, out)
  \/ \E t \in Tasks, out \in Outcomes : ProgressDone(t, out)
  \/ \E t \in Tasks : PullWaitDone(t)

PullSpec == Init /\ [][PullNext]_vars

\* ---- docker-routes.js: DELETE /images/:id ---------------------------------
\* const defaultImage = 'bdgtest/terminal:latest'
HardcodedDefault == "bdgtest/terminal:latest"

\* the answer to a removal request: the image named, and whether image.remove()
\* had succeeded when the answer was written
Removal(status, image, removed, out) ==
  [act |-> "removeImage", sid |-> 0, status |-> status, mock |-> FALSE,
   out |-> out, image |-> image, removed |-> removed]

\* requireAdmin and the handler up to `await image.inspect()`; without a
\* Docker client on app.locals the answer is 500
RemoveImageStart(who, id) ==
  /\ IF ~IsAdmin(who)
     THEN /\ ev' = Removal(403, id, FALSE, "-")
          /\ UNCHANGED inflight
     ELSE IF NoClient
     THEN /\ ev' = Removal(500, id, FALSE, "-")
          /\ UNCHANGED inflight
     ELSE /\ Room(1)
          /\ inflight' = Spawn(inflight,
               [op |-> "removeImage", pc |-> "inspect", sid |-> 0, cid |-> 0,
                who |-> who, image |-> id])
          /\ NoResponse
  /\ UNCHANGED <<lastBuild, webSessions, nextToken, dockerIface, envImage, images, sessions, order, containerCount,
                 containers, nextSid, now, decs>>

\* image.inspect() has answered (the image's RepoTags hold its name) or thrown
RemoveInspectDone(t, out) ==
  /\ t \in Tasks /\ t.op = "removeImage" /\ t.pc = "inspect"
  /\ out \in {"ok", "fail"}
  /\ IF out = "fail"
     THEN /\ ev' = Removal(500, t.image, FALSE, out)
          /\ inflight' = Retire(inflight, t)
     ELSE IF t.image = HardcodedDefault
     THEN /\ ev' = Removal(400, t.image, FALSE, out)
          /\ inflight' = Retire(inflight, t)
     ELSE /\ inflight' = Spawn(Retire(inflight, t), [t EXCEPT !.pc = "remove"])
          /\ NoResponse
  /\ UNCHANGED <<lastBuild, webSessions, nextToken, dockerIface, envImage, images, sessions, order, containerCount,
                 containers, nextSid, now, decs>>

\* image.remove() has answered: removed ("ok"), in use by a container
\* ("error": statusCode 409) or another failure; then the audit line
RemoveImageDone(t, out, audit) ==
  /\ t \in Tasks /\ t.op = "removeImage" /\ t.pc = "remove"
  /\ out \in {"ok", "error", "fail"}
  /\ ev' = IF out = "error" THEN Removal(409, t.image, FALSE, out)
           ELSE IF out = "fail" THEN Removal(500, t.image, FALSE, out)
           ELSE Removal(IF audit = "fail" THEN 500 ELSE 200, t.image, TRUE, audit)
  /\ inflight' = Retire(inflight, t)
  /\ UNCHANGED <<lastBuild, webSessions, nextToken, dockerIface, envImage, images, sessions, order, containerCount,
                 containers, nextSid, now, decs>>

RemovalNext ==
  \/ \E who \in WebUsers, image \in ImageNames \cup {NoImage} : SetDefaultStart(who, image)
  \/ \E t \in Tasks, exists \in BOOLEAN, audit \in AuditOutcomes :
        SetDefaultDone(t, exists, audit)
  \/ \E who \in WebUsers, id \in ImageNames : RemoveImageStart(who, id)
  \/ \E t \in Tasks, out \in Outcomes : RemoveInspectDone(t, out)
  \/ \E t \in Tasks, out \in Outcomes, audit \in AuditOutcomes : RemoveImageDone(t, out, audit)

RemovalSpec == Init /\ [][RemovalNext]_vars

\* ---- web logins: /api/login, validateWebSession, /api/logout ---------------
MaxTokens == 2                   \* login tokens issued
Tokens == 1..MaxTokens
WebMaxTime == WEB_TTL + 1        \* the clock runs until a login can expire
Passwords == {"right", "wrong"}

WebSession(who) ==
  [username |-> who, isAdmin |-> IsAdmin(who), created |-> now, lastAccessed |-> now]

\* the answer of the middleware or of a login: the token, and the session
\* record the handler held, if it found one
WebEv(act, status, token, seen) ==
  [act |-> act, sid |-> 0, status |-> status, mock |-> FALSE, out |-> "-",
   token |-> token, seen |-> seen]

\* POST /api/login
Login(who, password) ==
  /\ IF password # "right"
     THEN /\ ev' = WebEv("login", 401, 0, <<>>)
          /\ UNCHANGED <<webSessions, nextToken>>
     ELSE /\ nextToken <= MaxTokens
          /\ webSessions' = With(webSessions, nextToken, WebSession(who))
          /\ nextToken' = nextToken + 1
          /\ ev' = WebEv("login", 200, nextToken, <<WebSession(who)>>)
  /\ UNCHANGED <<lastBuild, dockerIface, envImage, images, sessions, order,
                 containerCount, containers, inflight, nextSid, now, decs>>

\* validateWebSession in front of a route: 401, or lastAccessed is refreshed
\* and the route runs
Validate(token) ==
  /\ IF token \notin DOMAIN webSessions
     THEN /\ ev' = WebEv("validate", 401, token, <<>>)
          /\ UNCHANGED webSessions
     ELSE IF WebExpired(webSessions[token])
     THEN /\ webSessions' = Without(webSessions, token)
          /\ ev' = WebEv("validate", 401, token, <<webSessions[token]>>)
     ELSE /\ webSessions' = [webSessions EXCEPT ![token].lastAccessed = now]
          /\ ev' = WebEv("validate", 200, token, <<webSessions[token]>>)
  /\ UNCHANGED <<lastBuild, nextToken, dockerIface, envImage, images, sessions,
                 order, containerCount, containers, inflight, nextSid, now,
                 decs>>

\* POST /api/logout: validateWebSession, then the token is deleted
Logout(token) ==
  /\ IF token \notin DOMAIN webSessions
     THEN /\ ev' = WebEv("logout", 401, token, <<>>)
          /\ UNCHANGED webSessions
     ELSE /\ webSessions' = Without(webSessions, token)
          /\ ev' = WebEv("logout", IF WebExpired(webSessions[token]) THEN 401 ELSE 200,
                         token, <<webSessions[token]>>)
  /\ UNCHANGED <<lastBuild, nextToken, dockerIface, envImage, images, sessions,
                 order, containerCount, containers, inflight, nextSid, now,
                 decs>>

WebTick ==
  /\ now < WebMaxTime
  /\ now' = now + 1
  /\ NoResponse
  /\ UNCHANGED <<lastBuild, webSessions, nextToken, dockerIface, envImage,
                 images, sessions, order, containerCount, containers, inflight,
                 nextSid, decs>>

WebNext ==
  \/ \E who \in WebUsers, password \in Passwords : Login(who, password)
  \/ \E token \in Tokens : Validate(token)
  \/ \E token \in Tokens : Logout(token)
  \/ Sweep
  \/ WebTick

WebSpec == Init /\ [][WebNext]_vars

\* ---- docker-routes.js: POST /rebuild-default, GET /build-status ------------
BuildResults == {"ok", "fail"}

\* the answer of GET /build-status
BuildStatus(status, completed, success) ==
  [act |-> "buildStatus", sid |-> 0, status |-> status, mock |-> FALSE,
   out |-> "-", completed |-> completed, success |-> success]

BuildTask(pc) == [op |-> "build", pc |-> pc, sid |-> 0, cid |-> 0, who |-> "admin"]

\* requireAdmin; buildAndPushDefaultImage() runs up to its first await (a
\* failure writing the Dockerfile makes it return false at once); lastBuild
\* is set to completed: false and the request is answered; a build that
\* returned at once has its .then run before any other handler
RebuildStart(who, fsOut) ==
  /\ IF ~IsAdmin(who)
     THEN /\ Respond("rebuild", 0, 403, FALSE, "-")
          /\ UNCHANGED <<inflight, lastBuild>>
     ELSE IF fsOut = "fail"
     THEN /\ Respond("rebuild", 0, 200, FALSE, fsOut)
          /\ lastBuild' = <<[completed |-> TRUE, success |-> FALSE]>>
          /\ UNCHANGED inflight
     ELSE /\ Room(1)
          /\ inflight' = Spawn(inflight, BuildTask("build"))
          /\ lastBuild' = <<[completed |-> FALSE, success |-> FALSE]>>
          /\ Respond("rebuild", 0, 200, FALSE, fsOut)
  /\ UNCHANGED <<webSessions, nextToken, dockerIface, envImage, images,
                 sessions, order, containerCount, containers, nextSid, now,
                 decs>>

\* the result reaches .then: lastBuild = {completed: true, success: result}
BuildSettled(t, result) ==
  /\ inflight' = Retire(inflight, t)
  /\ lastBuild' = <<[completed |-> TRUE, success |-> result]>>

\* `docker build` has ended; then `await authenticateWithDockerHub()`
BuildDone(t, out) ==
  /\ t \in Tasks /\ t.op = "build" /\ t.pc = "build"
  /\ out \in BuildResults
  /\ IF out = "ok"
     THEN /\ inflight' = Spawn(Retire(inflight, t), BuildTask("auth"))
          /\ UNCHANGED lastBuild
     ELSE BuildSettled(t, FALSE)
  /\ NoResponse
  /\ UNCHANGED <<webSessions, nextToken, dockerIface, envImage, images,
                 sessions, order, containerCount, containers, nextSid, now,
                 decs>>

\* authenticateWithDockerHub has returned; `docker push` is started
BuildAuthDone(t) ==
  /\ t \in Tasks /\ t.op = "build" /\ t.pc = "auth"
  /\ inflight' = Spawn(Retire(inflight, t), BuildTask("push"))
  /\ NoResponse
  /\ UNCHANGED <<lastBuild, webSessions, nextToken, dockerIface, envImage,
                 images, sessions, order, containerCount, containers, nextSid,
                 now, decs>>

\* `docker push` has ended: the build returns true or false
PushDone(t, out) ==
  /\ t \in Tasks /\ t.op = "build" /\ t.pc = "push"
  /\ out \in BuildResults
  /\ BuildSettled(t, out = "ok")
  /\ NoResponse
  /\ UNCHANGED <<webSessions, nextToken, dockerIface, envImage, images,
                 sessions, order, containerCount, containers, nextSid, now,
                 decs>>

\* GET /build-status: lastBuild, or "no build information" while undefined
GetBuildStatus(who) ==
  /\ ev' = IF ~IsAdmin(who) THEN BuildStatus(403, FALSE, FALSE)
           ELSE IF lastBuild = <<>> THEN BuildStatus(200, TRUE, FALSE)
           ELSE BuildStatus(200, lastBuild[1].completed, lastBuild[1].success)
  /\ UNCHANGED <<lastBuild, webSessions, nextToken, dockerIface, envImage,
                 images, sessions, order, containerCount, containers, inflight,
                 nextSid, now, decs>>

BuildNext ==
  \/ \E who \in WebUsers, fsOut \in BuildResults : RebuildStart(who, fsOut)
  \/ \E t \in Tasks, out \in Outcomes : BuildDone(t, out)
  \/ \E t \in Tasks : BuildAuthDone(t)
  \/ \E t \in Tasks, out \in Outcomes : PushDone(t, out)
  \/ \E who \in WebUsers : GetBuildStatus(who)

BuildSpec == Init /\ [][BuildNext]_vars

\* ---- process.on('SIGTERM') -------------------------------------------------
\* the shutdown loop suspended in cleanupSession(sid): `todo` is the rest of
\* the Object.keys(sessions) it iterates, `attempted` the ids it has passed
ShutdownTask(pc, sid, cid, todo, attempted) ==
  [op |-> "shutdown", pc |-> pc, sid |-> sid, cid |-> cid, who |-> "-",
   todo |-> todo, attempted |-> attempted]

\* process.exit(0), after cleanupSession was called for `attempted`
Exit(attempted) ==
  [act |-> "exit", sid |-> 0, status |-> 0, mock |-> FALSE, out |-> "-",
   attempted |-> attempted]

Exited == ev.act = "exit"

\* the loop goes on over `todo` in the registry `reg`: cleanupSession returns
\* at once for an id that is registered no more, and suspends in
\* container.stop() for the first that is; after the last id the process exits
RECURSIVE Advance(_, _, _, _)
Advance(b, reg, todo, attempted) ==
  IF todo = <<>>
  THEN /\ inflight' = b
       /\ ev' = Exit(attempted)
  ELSE IF Head(todo) \notin DOMAIN reg
  THEN Advance(b, reg, Tail(todo), attempted \cup {Head(todo)})
  ELSE /\ inflight' = Spawn(b, ShutdownTask("stop", Head(todo), reg[Head(todo)].containerId,
                                            Tail(todo), attempted \cup {Head(todo)}))
       /\ NoResponse

\* the signal arrives: Object.keys(sessions) is read once
Sigterm ==
  /\ ~\E t \in Tasks : t.op = "shutdown"
  /\ Room(1)
  /\ Advance(inflight, sessions, order, {})
  /\ UNCHANGED <<lastBuild, webSessions, nextToken, dockerIface, envImage, images,
                 sessions, order, containerCount, containers, nextSid, now, decs>>

\* await container.stop() settles inside the loop's cleanupSession
ShutdownStopDone(t, out) ==
  /\ t \in Tasks /\ t.op = "shutdown" /\ t.pc = "stop"
  /\ out \in StopOutcomes(t.cid)
  /\ IF out = "ok"
     THEN /\ containers' = Runtime(t.cid, "stopped")
          /\ inflight' = Spawn(Retire(inflight, t), [t EXCEPT !.pc = "remove"])
          /\ NoResponse
     ELSE /\ Advance(Retire(inflight, t), sessions, t.todo, t.attempted)
          /\ UNCHANGED containers
  /\ UNCHANGED <<lastBuild, webSessions, nextToken, dockerIface, envImage, images,
                 sessions, order, containerCount, nextSid, now, decs>>

\* await container.remove() settles; containerCount-- and delete sessions[id]
ShutdownRemoveDone(t, out) ==
  /\ t \in Tasks /\ t.op = "shutdown" /\ t.pc = "remove"
  /\ out \in RemoveOutcomes(t.cid)
  /\ IF out = "ok"
     THEN /\ containers' = Runtime(t.cid, "removed")
          /\ containerCount' = containerCount - 1
          /\ decs' = [decs EXCEPT ![t.sid] = @ + 1]
          /\ sessions' = Without(sessions, t.sid)
          /\ order' = SeqWithout(order, t.sid)
          /\ Advance(Retire(inflight, t), Without(sessions, t.sid), t.todo, t.attempted)
     ELSE /\ Advance(Retire(inflight, t), sessions, t.todo, t.attempted)
          /\ UNCHANGED <<containers, containerCount, decs, sessions, order>>
  /\ UNCHANGED <<lastBuild, webSessions, nextToken, dockerIface, envImage, images,
                 nextSid, now>>

\* nothing runs after process.exit
SigNext ==
  \/ \E who \in Creators : ~Exited /\ CreateWebStart(who)
  \/ \E t \in Tasks, out \in Outcomes : ~Exited /\ CreateWebContainerDone(t, out)
  \/ \E t \in Tasks, out \in Outcomes : ~Exited /\ CreateWebStartDone(t, out)
  \/ ~Exited /\ Sigterm
  \/ \E t \in Tasks, out \in Outcomes : ~Exited /\ ShutdownStopDone(t, out)
  \/ \E t \in Tasks, out \in Outcomes : ~Exited /\ ShutdownRemoveDone(t, out)

SigSpec == Init /\ [][SigNext]_vars

\* ---- the stream listeners of the web route, one event at a time ------------
\* stream.on('end'): the listener runs up to `await exec.inspect()`
StreamEnd(t) ==
  /\ t \in Tasks /\ t.op = "execWeb" /\ t.pc = "stream"
  /\ inflight' = Spawn(Retire(inflight, t), [t EXCEPT !.pc = "inspect"])
  /\ NoResponse
  /\ UNCHANGED sessions
  /\ UNCHANGED <<lastBuild, webSessions, nextToken, dockerIface, envImage, images, order,
                 containerCount, containers, nextSid, now, decs>>

\* stream.on('error'): logEntry.error and res.status(500).json; the socket of
\* the daemon can fail before 'end' or after it, while exec.inspect() is
\* pending, and the listener looks at nothing before it answers
StreamError(t) ==
  /\ t \in Tasks /\ t.op = "execWeb" /\ t.pc \in {"stream", "inspect"}
  /\ dockerIface = "real"
  /\ sessions' = Noted(sessions, t.sid, t.n, "error")
  /\ Reply(t.sid, 500, FALSE, "error", NoOutput)
  /\ inflight' = IF t.pc = "stream" THEN Retire(inflight, t)
                 ELSE Spawn(Retire(inflight, t), [t EXCEPT !.pc = "answered"])
  /\ UNCHANGED <<lastBuild, webSessions, nextToken, dockerIface, envImage, images, order,
                 containerCount, containers, nextSid, now, decs>>

\* exec.inspect() has answered or thrown: the rest of the 'end' listener
\* writes the result to `res`, whether or not `res` was written before
InspectDone(t, out) ==
  /\ t \in Tasks /\ t.op = "execWeb" /\ t.pc \in {"inspect", "answered"}
  /\ out \in StreamOutcomes \ {"error"}
  /\ IF out \in {"ok", "nonzero"}
     THEN /\ sessions' = Noted(sessions, t.sid, t.n, out)
          /\ Reply(t.sid, 200, FALSE, out, RealOutput(t.cmd))
     ELSE /\ sessions' = Noted(sessions, t.sid, t.n, "error")
          /\ Reply(t.sid, 500, FALSE, out, NoOutput)
  /\ inflight' = Retire(inflight, t)
  /\ UNCHANGED <<lastBuild, webSessions, nextToken, dockerIface, envImage, images, order,
                 containerCount, containers, nextSid, now, decs>>

ReplyNext ==
  \/ \E who \in Creators : nextSid <= ExecSids /\ CreateWebStart(who)
  \/ \E t \in Tasks, out \in Outcomes : CreateWebContainerDone(t, out)
  \/ \E t \in Tasks, out \in Outcomes : CreateWebStartDone(t, out)
  \/ \E who \in Creators, sid \in SidRange, cmd \in LogTexts, audit \in AuditOutcomes :
        Accepts(sid, MaxCommands) /\ ExecWebArrive(who, sid, cmd, audit)
  \/ \E t \in Tasks : MockTimerDone(t)
  \/ \E t \in Tasks, out \in Outcomes : ExecDone(t, out)
  \/ \E t \in Tasks, out \in Outcomes : ExecStartDone(t, out)
  \/ \E t \in Tasks : StreamEnd(t)
  \/ \E t \in Tasks : StreamError(t)
  \/ \E t \in Tasks, out \in StreamResults : InspectDone(t, out)

ReplySpec == Init /\ [][ReplyNext]_vars

\* ======================= the claims ========================================
Registered == Cardinality(DOMAIN sessions)
TerminateActs == {"delWeb", "delApi"}
\* a termination request answered after its cleanupSession has settled
TerminateAnswered == ev.act \in TerminateActs /\ ev.out # "-" /\ ev.out # "expired"

\* C1: in every reachable state the registry holds at most MAX_CONTAINERS
\* sessions, whatever the interleaving of concurrent creations.
C1_RegistryWithinCapacity == Registered <= MAX_CONTAINERS

\* C2: whatever teardown triggers overlap on one session, containerCount is
\* decremented for that session at most once.
C2_DecrementedOnce == \A s \in SidRange : decs[s] <= 1

C4_SuccessMeansGone ==
  (TerminateAnswered /\ ev.status = 200) => (~Known(ev.sid) /\ decs[ev.sid] = 1)

\* C5: a termination that got as far as cleanupSession is always answered with
\* success: a failing stop or remove never becomes an error response.
C5_TeardownNeverRaises == TerminateAnswered => ev.status = 200

\* a termination answered 200 although the Docker call failed
C5_Witness ==
  TerminateAnswered /\ ev.out = "fail" /\ ev.status = 200 /\ Known(ev.sid)

\* C6: in every state containerCount equals the number of registered sessions
\* (what /health reports as containerCount and activeSessions).
C6_CountMatchesRegistry == containerCount = Registered

\* C7: containerCount stays within 0..MAX_CONTAINERS.
C7_CountInRange == 0 <= containerCount /\ containerCount <= MAX_CONTAINERS

\* C8: once the termination of a session has been answered with success and
\* no other session is registered or being created, a creation is accepted.
C8_TerminateFreesSlot ==
  (TerminateAnswered /\ ev.status = 200 /\ DOMAIN sessions \subseteq {ev.sid}
     /\ inflight = EmptyBag)
    => ~AtCapacity(containerCount)

\* C9: a creation is rejected with 503 exactly when the registry holds
\* MAX_CONTAINERS sessions or more: every 503 is answered with a full registry,
\* and with a full registry the capacity check rejects.
C9_RejectedIffFull ==
  /\ (ev.status = 503 => Registered >= MAX_CONTAINERS)
  /\ (Registered >= MAX_CONTAINERS => AtCapacity(containerCount))

\* C10: on the web route, a creation whose Docker call fails with the socket
\* error is answered 200 with isMock, and the step registers exactly one
\* session, flagged isMock with a synthetic container id, and adds one to
\* containerCount.
C10_MockFallback ==
  [][(ev'.act = "createWeb" /\ ev'.out = "enoent")
       => /\ ev'.status = 200 /\ ev'.mock
          /\ ~Known(ev'.sid)
          /\ DOMAIN sessions' = DOMAIN sessions \cup {ev'.sid}
          /\ \A s \in DOMAIN sessions : sessions'[s] = sessions[s]
          /\ sessions'[ev'.sid].isMock
          /\ IsMockCid(sessions'[ev'.sid].containerId)
          /\ containerCount' = containerCount + 1]_vars

\* a mock session registered by the fallback
C10_Witness ==
  /\ ev.act = "createWeb" /\ ev.out = "enoent" /\ ev.status = 200 /\ ev.mock
  /\ Known(ev.sid) /\ sessions[ev.sid].isMock /\ containerCount = 1

CreateActs == {"createWeb", "createApi"}

\* C11: a creation answered with the creation failure (500) registers no
\* session and leaves containerCount as it was: the failing step changes
\* neither the registry, nor its key order, nor the counter.
C11_FailedCreateChangesNothing ==
  [][(ev'.act \in CreateActs /\ ev'.status = 500)
       => UNCHANGED <<sessions, order, containerCount, decs>>]_vars

\* a creation that failed on a non-socket error while a session is registered
C11_Witness ==
  /\ ev.act = "createWeb" /\ ev.status = 500 /\ ev.out = "error"
  /\ ~Known(ev.sid) /\ Registered = 1 /\ containerCount = 1

\* a container the daemon holds is referenced by a registered session, or the
\* creation that allocated it is still in flight
Referenced(cid) ==
  \/ \E s \in DOMAIN sessions : sessions[s].containerId = cid
  \/ \E t \in Tasks : t.op \in CreateActs /\ t.cid = cid

\* C12: no creation leaves a half-created session: every container that
\* createContainer allocated and that still exists belongs to a registered
\* session (or to a creation still under way), and every registered real
\* session refers to a container that was created.
C12_NoHalfCreated ==
  /\ \A cid \in DOMAIN containers :
        containers[cid] \in {"created", "running"} => Referenced(cid)
  /\ \A s \in DOMAIN sessions :
        (dockerIface = "real" /\ ~sessions[s].isMock)
          => sessions[s].containerId \in DOMAIN containers

\* the tasks a step has put in flight
Started == BagToSet(inflight' (-) inflight)
\* a session that was opened on a container and later switched to mock mode
Degraded(s) == s.isMock /\ ~IsMockCid(s.containerId)

\* C13: isMock is monotone: no step turns a session that is flagged isMock
\* back into a real one while the session is in the registry.
C13_MockIsMonotone ==
  [][\A s \in DOMAIN sessions :
       (sessions[s].isMock /\ s \in DOMAIN sessions') => sessions'[s].isMock]_vars

\* a degraded session has served a later command from the mock branch
C13_Witness ==
  /\ ev.act = "execWeb" /\ ev.out = "mockTimer" /\ Known(ev.sid)
  /\ Degraded(sessions[ev.sid]) /\ sessions[ev.sid].commandCount = 2

C15_MockExecution ==
  [][/\ \A t \in Started :
          (t.op = "execWeb" /\ t.pc \in {"exec", "mockTimer"} /\ sessions[t.sid].isMock)
            => (t.pc = "mockTimer" /\ UNCHANGED containers)
     /\ \A t \in Tasks :
          (t.op = "execWeb" /\ t.pc = "mockTimer" /\ inflight' = Retire(inflight, t))
            => /\ ev'.act = "execWeb" /\ ev'.status = 200 /\ ev'.mock
               /\ ev'.output.command = t.cmd
               /\ [ev'.output EXCEPT !.time = 0] =
                    [text |-> "mock", command |-> t.cmd, time |-> 0,
                     sessionId |-> t.sid, user |-> t.user]
               /\ UNCHANGED containers]_vars

\* a session that is mock from its creation has answered a command
C15_Witness ==
  /\ ev.act = "execWeb" /\ ev.out = "mockTimer" /\ ev.status = 200
  /\ ev.output.command = "pwd" /\ Known(ev.sid)
  /\ IsMockCid(sessions[ev.sid].containerId)

\* C16: once a command on an expired session has been answered with the
\* session-expired error, the session leaves the registry.
C16_ExpiredIsRemoved ==
  \A s \in SidRange :
    (ev.act = "execWeb" /\ ev.out = "expired" /\ ev.sid = s) ~> ~Known(s)

\* C17: on the web routes a command or a teardown is started only for the
\* owner of the session or an admin, and a request answered 403 starts
\* nothing and changes nothing.
C17_OwnerOrAdmin ==
  [][/\ \A t \in Started :
          (t.op \in {"execWeb", "delWeb"} /\ t.pc \in {"exec", "mockTimer", "stop"})
            => /\ Known(t.sid)
               /\ (t.who = sessions[t.sid].webUser \/ t.who = "admin")
     /\ ev'.status = 403
          => UNCHANGED <<sessions, order, containerCount, containers, inflight, decs>>]_vars

\* an admin's command runs on alice's session, and another user's request to
\* end that session has just been refused
C17_Witness ==
  /\ ev.act = "delWeb" /\ ev.status = 403
  /\ \E t \in Tasks : /\ t.op = "execWeb" /\ t.who = "admin" /\ Known(t.sid)
                       /\ sessions[t.sid].webUser = "alice"

\* C18: the recent log holds the last commands, at most LOG_CAP of them, most
\* recent first: entry i is the (commandCount - i + 1)-th command.
C18_RecentLog ==
  \A s \in DOMAIN sessions :
    LET l == sessions[s].logs
        c == sessions[s].commandCount
    IN /\ Len(l) <= LOG_CAP
       /\ Len(l) = IF c < LOG_CAP THEN c ELSE LOG_CAP
       /\ \A i \in 1..Len(l) : l[i].n = c - i + 1
       /\ \A i \in 1..(Len(l) - 1) : l[i].timestamp >= l[i + 1].timestamp

\* after 11 commands the first entry is gone and the 11th is at the head
C18_Witness ==
  \E s \in DOMAIN sessions :
    /\ sessions[s].commandCount = LOG_CAP + 1
    /\ Len(sessions[s].logs) = LOG_CAP
    /\ sessions[s].logs[1].n = LOG_CAP + 1
    /\ sessions[s].logs[LOG_CAP].n = 2

\* C19: commandCount never decreases, and every step that counts a command
\* sets lastAccessed to the current time, adds one to commandCount and puts
\* one new, still unanswered entry for it at the head of the log.
C19_CountedAndLogged ==
  [][\A s \in DOMAIN sessions \cap DOMAIN sessions' :
       LET a == sessions[s]
           b == sessions'[s]
       IN /\ b.commandCount >= a.commandCount
          /\ b.commandCount # a.commandCount
               => /\ b.commandCount = a.commandCount + 1
                  /\ b.lastAccessed = now
                  /\ Len(b.logs) > 0
                  /\ b.logs[1].n = b.commandCount
                  /\ b.logs[1].result = "-"
                  /\ Tail(b.logs) \in {a.logs, SubSeq(a.logs, 1, Len(a.logs) - 1)}]_vars

\* C20: every registered session whose idle time exceeds SESSION_TIMEOUT is
\* eventually out of the registry.
C20_IdleIsReclaimed ==
  \A s \in SidRange : (Known(s) /\ Expired(sessions[s])) ~> ~Known(s)

\* a cleanupSession of the sweep whose stop or remove has just been rejected
ReaperFailed(t) ==
  /\ t.op = "reaper"
  /\ CopiesIn(t, inflight') < CopiesIn(t, inflight)
  /\ CopiesIn([t EXCEPT !.pc = "remove"], inflight') <=
       CopiesIn([t EXCEPT !.pc = "remove"], inflight)
  /\ Known(t.sid)'

\* C21: a sweep starts a cleanup for every session that is expired when the
\* timer fires; a cleanup of the sweep that fails leaves every other cleanup
\* in flight and the registry as they were, and the timer can fire again.
C21_SweepIsolatesFailures ==
  [][/\ (\E t \in Started : t.op = "reaper" /\ t.pc = "stop")
          => \A s \in ExpiredIds :
               \E t \in Started : t.op = "reaper" /\ t.sid = s /\ t.pc = "stop"
     /\ \A t \in Tasks :
          ReaperFailed(t)
            => /\ \A u \in Tasks \ {t} : CopiesIn(u, inflight') = CopiesIn(u, inflight)
               /\ UNCHANGED <<sessions, order, containerCount>>
               /\ (Room(Cardinality(ExpiredIds)) => ENABLED Sweep)']_vars

\* two sessions were expired at one sweep: the cleanup of one has failed at
\* its stop, the cleanup of the other goes on
C21_Witness ==
  \E a, b \in DOMAIN sessions :
    /\ a # b /\ Expired(sessions[a]) /\ Expired(sessions[b])
    /\ RuntimeState(sessions[a].containerId) = "running"
    /\ ~\E t \in Tasks : t.sid = a
    /\ \E t \in Tasks : t.op = "reaper" /\ t.sid = b /\ t.pc = "remove"

\* the positions of a handler between its call of container.exec and the end
\* of the command's stream
ExecPcs == {"exec", "execStart", "stream"}
\* the commands of one session that Docker is running or about to run
Running(sid) == {t \in Tasks : t.sid = sid /\ t.pc \in ExecPcs}

\* C22: no session has two exec calls in flight against its container at the
\* same time.
C22_OneExecPerSession ==
  \A sid \in SidRange :
    /\ Cardinality(Running(sid)) <= 1
    /\ \A t \in Running(sid) : CopiesIn(t, inflight) = 1

\* C23: no step hands a command to the container of a session that is expired
\* at that moment, and no step refreshes lastAccessed of an expired session.
C23_NoStartOnExpired ==
  [][/\ \A t \in Started :
          (t.pc = "exec" /\ Known(t.sid)) => ~Expired(sessions[t.sid])
     /\ \A s \in DOMAIN sessions \cap DOMAIN sessions' :
          Expired(sessions[s]) => sessions'[s].lastAccessed = sessions[s].lastAccessed]_vars

\* the cleanups that the expiry of a session starts
ExpiryOps == {"reaper", "expiry"}

\* C24: no cleanup started by the sweep or by the expiry check of a request
\* stops or removes the container of a session while a command of that
\* session is in flight.
C24_NoPreemption ==
  [][\A t \in Tasks :
       (t.op \in ExpiryOps /\ CopiesIn(t, inflight') < CopiesIn(t, inflight)
          /\ RuntimeState(t.cid)' # RuntimeState(t.cid))
         => Running(t.sid) = {}]_vars

ViewActs == {"list", "detail"}

\* C25: every response about a session that is flagged isMock carries
\* isMock: true: the answers of creation and execution, and every entry of
\* the session list and of the detail view.
C25_MockIsFlagged ==
  /\ (ev.act \in {"createWeb", "execWeb"} /\ ev.status = 200 /\ Known(ev.sid)
        /\ sessions[ev.sid].isMock) => ev.mock
  /\ ev.act \in ViewActs
       => \A i \in 1..Len(ev.body) :
            sessions[ev.body[i].id].isMock
              => ("isMock" \in DOMAIN ev.body[i] /\ ev.body[i].isMock)

\* C27: the list of an admin has one entry per registered session, the list
\* of any other user one entry per session whose webUser is that user, each
\* with the fields of that session; the detail view answers 200 with the
\* session's fields to its owner or an admin and with no field to anyone else.
C27_ListShowsOwn ==
  /\ ev.act = "list"
       => LET ids == {ev.body[i].id : i \in 1..Len(ev.body)}
          IN /\ ids = IF ev.who = "admin" THEN DOMAIN sessions
                      ELSE {s \in DOMAIN sessions : sessions[s].webUser = ev.who}
             /\ Cardinality(ids) = Len(ev.body)
             /\ \A i \in 1..Len(ev.body) :
                  /\ ev.body[i].userId = sessions[ev.body[i].id].userId
                  /\ ev.body[i].created = sessions[ev.body[i].id].created
                  /\ ev.body[i].lastAccessed = sessions[ev.body[i].id].lastAccessed
  /\ ev.act = "detail"
       => IF Known(ev.sid) /\ (sessions[ev.sid].webUser = ev.who \/ ev.who = "admin")
          THEN /\ ev.status = 200 /\ Len(ev.body) = 1 /\ ev.body[1].id = ev.sid
               /\ ev.body[1].userId = sessions[ev.sid].userId
          ELSE /\ ev.status = IF Known(ev.sid) THEN 403 ELSE 404
               /\ ev.body = <<>>

\* bob lists his one session while a session of alice is registered too
C27_Witness ==
  /\ ev.act = "list" /\ ev.who = "bob" /\ Len(ev.body) = 1
  /\ \E s \in DOMAIN sessions : sessions[s].webUser = "alice"

ExecActs == {"execWeb", "execApi", "execLegacy"}

\* C26: a request whose Docker call fails because the socket is unreachable
\* is answered with a successful mock-mode result, on the creation and the
\* execution routes alike, and a command on a session flagged isMock is never
\* answered with an error of the backend.
C26_SocketErrorAbsorbed ==
  /\ ev.out = "enoent" => (ev.status = 200 /\ ev.mock)
  /\ (ev.act \in ExecActs /\ Known(ev.sid) /\ sessions[ev.sid].isMock
        /\ ev.out \in {"enoent", "error", "inspect"}) => ev.status = 200

\* C29: no two registered sessions have the same containerId, and no step
\* changes the owner (userId, webUser), the containerId or the created
\* timestamp of a session that stays in the registry, the switch to mock mode
\* included.
C29_OneContainerPerSession ==
  [][/\ \A a, b \in DOMAIN sessions' :
          sessions'[a].containerId = sessions'[b].containerId => a = b
     /\ \A s \in DOMAIN sessions \cap DOMAIN sessions' :
          /\ sessions'[s].containerId = sessions[s].containerId
          /\ sessions'[s].userId = sessions[s].userId
          /\ sessions'[s].webUser = sessions[s].webUser
          /\ sessions'[s].created = sessions[s].created]_vars

\* a session has been switched to mock mode later than it was created, and
\* another session is registered beside it
C29_Witness ==
  \E a, b \in DOMAIN sessions :
    /\ a # b /\ Degraded(sessions[a]) /\ sessions[a].commandCount = 1
    /\ ev.act = "execWeb" /\ ev.out = "enoent" /\ ev.sid = a

\* the answers an execution request gets on arrival, before any Docker call
OnArrival == ev'.act = "execWeb" /\ ev'.out \in {"-", "expired"}

\* C30: an execution request is checked for the session (401), then for its
\* expiry, then for the requester: a request on an expired session is
\* answered session-expired and starts the teardown of that session, whoever
\* sent it; Forbidden is answered for sessions that are not expired only, and
\* starts no teardown.
C30_ExpiryBeforeAuthorization ==
  [][OnArrival =>
       /\ (ev'.status = 401 /\ ev'.out = "-") => ~Known(ev'.sid)
       /\ (ev'.status # 400 /\ Known(ev'.sid)
             /\ now - sessions[ev'.sid].lastAccessed > SESSION_TIMEOUT)
            => /\ ev'.status = 401 /\ ev'.out = "expired"
               /\ \E t \in Started :
                    t.op = "expiry" /\ t.sid = ev'.sid /\ t.pc = "stop"
       /\ ev'.status = 403
            => /\ Known(ev'.sid)
               /\ now - sessions[ev'.sid].lastAccessed <= SESSION_TIMEOUT
               /\ UNCHANGED <<sessions, order, containerCount, containers, inflight>>]_vars

\* a user who owns no session has sent a command to alice's expired session:
\* the answer is session-expired and the teardown is under way
C30_Witness ==
  /\ ev.act = "execWeb" /\ ev.out = "expired" /\ ev.status = 401
  /\ Known(ev.sid) /\ sessions[ev.sid].webUser \notin Strangers
  /\ \E t \in Tasks : t.op = "expiry" /\ t.sid = ev.sid

\* C28: every createContainer call of a session creation names the image
\* that is configured as the default at that moment, which is the image most
\* recently set through the default-image operation.
C28_DefaultImageIsUsed ==
  [][\A cid \in DOMAIN images' \ DOMAIN images : images'[cid] = envImage]_vars

\* a request refused on arrival: an execution for an unknown session or by a
\* user who may not use the session, a termination by such a user
Refused ==
  \/ ev'.act = "execWeb" /\ ev'.out = "-" /\ ev'.status \in {401, 403}
  \/ ev'.act = "delWeb" /\ ev'.status = 403

\* C31: a refused request changes neither the registry (every field of every
\* session, lastAccessed, commandCount and logs included), nor its key order,
\* nor containerCount, and starts nothing.
C31_RefusalChangesNothing ==
  [][Refused => UNCHANGED <<sessions, order, containerCount, decs, containers, inflight>>]_vars

\* a command has been refused as Forbidden on alice's session, which has
\* counted and logged nothing
C31_Witness ==
  /\ ev.act = "execWeb" /\ ev.status = 403 /\ Known(ev.sid)
  /\ sessions[ev.sid].commandCount = 0 /\ sessions[ev.sid].logs = <<>>
  /\ sessions[ev.sid].webUser = "alice"

\* the cleanups a firing of the timer has put in flight
Reaped == {t \in Started : t.op = "reaper" /\ t.pc = "stop"}

\* C32: the step in which the timer fires adds no session, leaves every
\* session, the key order, containerCount and the runtime as they are, and
\* starts a cleanup only for sessions that are idle for more than
\* SESSION_TIMEOUT at that moment.
C32_SweepSparesFresh ==
  [][Reaped # {} =>
       /\ UNCHANGED <<sessions, order, containerCount, containers, nextSid, decs>>
       /\ \A t \in Reaped :
            /\ Known(t.sid)
            /\ now - sessions[t.sid].lastAccessed > SESSION_TIMEOUT]_vars

\* a sweep has started the cleanup of an idle session and none for a session
\* registered beside it that is idle for exactly SESSION_TIMEOUT
C32_Witness ==
  \E a, b \in DOMAIN sessions :
    /\ now - sessions[a].lastAccessed > SESSION_TIMEOUT
    /\ now - sessions[b].lastAccessed = SESSION_TIMEOUT
    /\ \E t \in Tasks : t.op = "reaper" /\ t.sid = a /\ t.pc = "stop"
    /\ ~\E t \in Tasks : t.sid = b

\* C33: created <= lastAccessed for every registered session, and no step
\* lowers the lastAccessed of a session that stays registered.
C33_AccessAfterCreation ==
  [][\A s \in DOMAIN sessions' :
       /\ sessions'[s].created <= sessions'[s].lastAccessed
       /\ s \in DOMAIN sessions
            => sessions'[s].lastAccessed >= sessions[s].lastAccessed]_vars

\* a web session used later than it was created
C33_Witness ==
  \E s \in DOMAIN sessions :
    /\ sessions[s].lastAccessed > sessions[s].created
    /\ sessions[s].webUser \in Creators
    /\ \E t \in Tasks : t.sid = s /\ t.pc = "exec"

\* the sessions of a device, and the containers created on its behalf
SessionsOf(d) == {s \in DOMAIN sessions : sessions[s].userId = d}
ContainersOf(d) ==
  {c \in DOMAIN containers :
     \/ \E s \in SessionsOf(d) : sessions[s].containerId = c
     \/ \E t \in Tasks : t.op = "execLegacy" /\ t.user = d /\ t.cid = c}

\* C38: the legacy route keeps at most one session per device id, and at
\* most one container is created for a device.
C38_OneSessionPerDevice ==
  \A d \in DeviceIds :
    Cardinality(SessionsOf(d)) <= 1 /\ Cardinality(ContainersOf(d)) <= 1

\* C34: pullDockerImage calls docker.pull at most 3 times in one call, returns
\* true exactly when an attempt succeeded (the last one it made), returns
\* false only after 3 failed attempts or, with no Docker client, after none.
C34_PullRetriesBounded ==
  /\ \A t \in Tasks : t.op = "pull" => t.attempt <= PULL_ATTEMPTS
  /\ ev.act = "pull" =>
       /\ ev.attempts <= PULL_ATTEMPTS
       /\ ev.returned <=> ev.out = "ok"
       /\ ev.returned => ev.attempts >= 1
       /\ ~ev.returned => ev.attempts = (IF NoClient THEN 0 ELSE PULL_ATTEMPTS)
       /\ NoClient => ~ev.returned /\ ev.attempts = 0

\* false after three attempts whose progress reported an error
C34_Witness ==
  ev.act = "pull" /\ ~ev.returned /\ ev.attempts = PULL_ATTEMPTS /\ ev.out = "progress"

\* C36: a removal that succeeded never removed the image that is the default
\* (process.env.USER_CONTAINER_IMAGE) at that moment.
C36_DefaultIsNeverRemoved ==
  ev.act = "removeImage" /\ ev.removed => ev.image # envImage

\* what a build in flight is
BuildRunning == \E t \in Tasks : t.op = "build"

\* C37: the build status reports completed: false whenever a rebuild is in
\* flight and completed: true only when none is.
C37_StatusTracksBuilds ==
  ev.act = "buildStatus" /\ ev.status = 200 => (ev.completed <=> ~BuildRunning)

\* C40: a login token is accepted only within 24 hours of its creation,
\* whatever its lastAccessed; a token rejected by the middleware is not in the
\* registry afterwards; a token that has left the registry never returns.
C40_TokenLivesOneDay ==
  [][/\ ev'.act = "validate" /\ ev'.status = 200 =>
          /\ ev'.token \in DOMAIN webSessions
          /\ now' - webSessions[ev'.token].created <= WEB_TTL
     /\ ev'.act = "validate" /\ ev'.status = 401 => ev'.token \notin DOMAIN webSessions'
     /\ \A k \in 1..(nextToken - 1) :
          /\ k \notin DOMAIN webSessions => k \notin DOMAIN webSessions'
          /\ k \in DOMAIN webSessions /\ k \in DOMAIN webSessions' =>
               webSessions'[k].created = webSessions[k].created]_vars

\* a token in use one tick before is rejected for its age and deleted
C40_Witness ==
  /\ ev.act = "validate" /\ ev.status = 401 /\ ev.seen # <<>>
  /\ ev.seen[1].lastAccessed > ev.seen[1].created
  /\ now - ev.seen[1].lastAccessed <= WEB_TTL
  /\ ev.token \notin DOMAIN webSessions

\* C39: when the process exits on SIGTERM, teardown has been attempted for
\* every session in the registry.
C39_ShutdownAttemptsAll ==
  Exited => DOMAIN sessions \subseteq ev.attempted

\* C35: a command request that has been answered is not answered again: the
\* continuation of a request whose response was written writes no response.
C35_OneResponsePerRequest ==
  [][\A t \in Tasks :
       (t.pc = "answered" /\ CopiesIn(t, inflight') < CopiesIn(t, inflight))
         => ev'.act \notin ExecActs]_vars

====
